---- MODULE Spec2Model ----
(***************************************************************************)
(* Payment confirmation and order-status reconciliation                   *)
(* (controllers/email.controller.js: confirmPayment,                      *)
(* updatePaymentTransactionStatus) together with the two order stores it  *)
(* propagates to (orders, pickup_orders).                                 *)
(*                                                                         *)
(* A handler is an operator from the database it finds and its request to  *)
(* the database it leaves and the response it sends; an action applies one *)
(* handler to the current database.                                        *)
(*                                                                         *)
(* Text values that the code inspects character by character (order ids,  *)
(* amounts, references) are sequences of one-character strings; enum-like *)
(* values are TLA+ strings.  SQL NULL is NullText for the former and NULL *)
(* for the latter.                                                         *)
(***************************************************************************)
EXTENDS Integers, Sequences, FiniteSets, TLC

VARIABLES sqlStrict, pcTable, txns, ordersTable, orders, pickupTable, pickups,
          sending, calls, borrowed,
          forgotPassword, passwords, clock, proof, emailsSent

vars ==
  <<sqlStrict, pcTable, txns, ordersTable, orders, pickupTable, pickups,
    sending, calls, borrowed, forgotPassword, passwords, clock, proof,
    emailsSent>>

\* The password-reset flow of one browser session: req.session.forgotPassword,
\* the password column of customers, Date.now(), and, as a record of what has
\* happened, per customer the code last issued and whether it was verified
accounts == <<forgotPassword, passwords, clock, proof>>

\* The variables of the payment flow
payments ==
  <<sqlStrict, pcTable, txns, ordersTable, orders, pickupTable, pickups>>

\* Requests in flight: the create request that is at its notification step and
\* the transition calls that are between two of their statements.  Where a
\* handler is taken as one step, nothing is in flight.  borrowed counts the
\* connections that requests in flight hold from the pool.
inflight == <<sending, calls, borrowed>>

\* The database as one value: what a handler reads and what it leaves behind
Db ==
  [sqlStrict |-> sqlStrict, pcTable |-> pcTable, txns |-> txns,
   ordersTable |-> ordersTable, orders |-> orders,
   pickupTable |-> pickupTable, pickups |-> pickups]

----------------------------------------------------------------------------
(* Bounds *)

MaxTxns == 1

MaxOrders == 2

MaxPickups == 1

----------------------------------------------------------------------------
(* Values *)

NULL == "<null>"

NullText == <<>>

Digits == {"0", "1", "2", "3", "4", "5", "6", "7", "8", "9"}

DigitVal(c) ==
  CASE c = "0" -> 0 [] c = "1" -> 1 [] c = "2" -> 2 [] c = "3" -> 3
    [] c = "4" -> 4 [] c = "5" -> 5 [] c = "6" -> 6 [] c = "7" -> 7
    [] c = "8" -> 8 [] c = "9" -> 9

\* /^\d+$/.test(s)
IsNumeric(s) == Len(s) > 0 /\ \A i \in 1..Len(s) : s[i] \in Digits

RECURSIVE ToNumber(_)
\* Number(s) for a string of decimal digits
ToNumber(s) ==
  IF Len(s) = 0 THEN 0
  ELSE 10 * ToNumber(SubSeq(s, 1, Len(s) - 1)) + DigitVal(s[Len(s)])

RECURSIVE DigitsOf(_)
\* decimal rendering of a natural number, as `${n}` renders it
DigitsOf(n) ==
  LET d == n % 10
      c == CHOOSE x \in Digits : DigitVal(x) = d
  IN IF n < 10 THEN <<c>> ELSE Append(DigitsOf(n \div 10), c)

\* generateOrderId: the prefix AMC- followed by random characters
CodeA == <<"A", "M", "C", "-", "A">>

CodeB == <<"A", "M", "C", "-", "B">>

Codes == {CodeA, CodeB}

TransPrefix == <<"T", "R", "A", "N", "S", "-">>

----------------------------------------------------------------------------
(* JavaScript and SQL value semantics used by the handlers *)

UNDEFINED == "<undefined>"

\* !v for the string-or-undefined values a request body carries
Falsy(v) == v = UNDEFINED \/ v = "" \/ v = NULL

\* `field = dflt` in a destructuring pattern: only undefined takes the default
Default(v, dflt) == IF v = UNDEFINED THEN dflt ELSE v

\* v || dflt
OrElse(v, dflt) == IF Falsy(v) THEN dflt ELSE v

\* seq || null for character sequences
OrNullText(s) == IF Len(s) = 0 THEN NullText ELSE s

RECURSIVE DigitPrefixLen(_)
DigitPrefixLen(s) ==
  IF Len(s) = 0 \/ Head(s) \notin Digits THEN 0 ELSE 1 + DigitPrefixLen(Tail(s))

\* parseFloat on integer literals: optional sign, longest digit prefix, else NaN
ParseFloat(s) ==
  LET neg  == Len(s) > 0 /\ Head(s) = "-"
      body == IF neg THEN Tail(s) ELSE s
      n    == DigitPrefixLen(body)
      v    == ToNumber(SubSeq(body, 1, n))
  IN IF n = 0 THEN [nan |-> TRUE, v |-> 0]
     ELSE [nan |-> FALSE, v |-> IF neg THEN 0 - v ELSE v]

\* parseFloat(amount) || 0
AmountOrZero(s) == LET p == ParseFloat(s) IN IF p.nan \/ p.v = 0 THEN 0 ELSE p.v

TxnStatusEnum == {"pending", "verified", "rejected"}

OrderTypeEnum == {"delivery", "pickup"}

OrdersStatusEnum ==
  {"pending", "processing", "completed", "successful", "delivered",
   "canceled", "returned", "failed"}

PickupStatusEnum == {"pending", "picked_up", "expired"}

SqlError == "<error>"

\* Writing v into an ENUM column: a member is stored as is; any other value
\* is rejected under a strict sql_mode and stored as '' otherwise.
StoreEnum(v, enum, strict) ==
  IF v \in enum THEN v ELSE IF strict THEN SqlError ELSE ""

----------------------------------------------------------------------------
(* Responses *)

NoData == [id |-> 0, order_id |-> NullText, status |-> ""]

Response(op, code) ==
  [op |-> op, code |-> code, success |-> code \in {200, 201},
   mail |-> "none", mailFailed |-> FALSE, data |-> NoData]

\* What a handler yields: the database it leaves and the response it sends
Outcome(db, res) == [db |-> db, res |-> res]

----------------------------------------------------------------------------
(* confirmPayment *)
\* Schema preparation: an absent table is created by a DDL that has no
\* order_type column; an existing table gets the column added when missing.
PrepareSchema(t) == IF t = "absent" THEN "noOrderType" ELSE "full"

\* The parameter list of the INSERT
InsertValues(body, now) ==
  [order_id              |-> OrNullText(body.order_id),
   payment_method        |-> body.payment_method,
   amount                |-> AmountOrZero(body.amount),
   customer_name         |-> OrElse(body.customer_name, NULL),
   customer_email        |-> OrElse(body.customer_email, NULL),
   customer_phone        |-> OrElse(body.customer_phone, NULL),
   transaction_reference |-> IF Len(body.transaction_reference) = 0
                             THEN TransPrefix \o DigitsOf(now)
                             ELSE body.transaction_reference,
   notes                 |-> OrElse(body.notes, NULL),
   order_type            |-> OrElse(Default(body.order_type, "delivery"), "delivery")]

\* The id is not generated: every row is stored under id 1
InsertedRowSameId(vals, id, strict) ==
  [id |-> 1, status |-> "pending",
   order_id |-> vals.order_id, payment_method |-> vals.payment_method,
   amount |-> vals.amount, customer_name |-> vals.customer_name,
   customer_email |-> vals.customer_email, customer_phone |-> vals.customer_phone,
   transaction_reference |-> vals.transaction_reference, notes |-> vals.notes,
   order_type |-> StoreEnum(vals.order_type, OrderTypeEnum, strict)]

\* The row the INSERT stores: id from AUTO_INCREMENT, status from the column
\* default, order_type through its ENUM column.
InsertedRow(vals, id, strict) ==
  [id |-> id, status |-> "pending",
   order_id |-> vals.order_id, payment_method |-> vals.payment_method,
   amount |-> vals.amount, customer_name |-> vals.customer_name,
   customer_email |-> vals.customer_email, customer_phone |-> vals.customer_phone,
   transaction_reference |-> vals.transaction_reference, notes |-> vals.notes,
   order_type |-> StoreEnum(vals.order_type, OrderTypeEnum, strict)]

\* Which template the notification step uses
MailTemplate(body) ==
  IF Default(body.order_type, "delivery") = "pickup" THEN "pickup" ELSE "delivery"

\* A null-only test: an absent or empty payment_method passes it
PaymentMethodNullOnly(body) == body.payment_method = NULL

\* if (!paymentMethod), after the destructuring default ''
PaymentMethodMissing(body) == Falsy(Default(body.payment_method, ""))

\* The handler on database s up to its notification step: validation, schema
\* step, INSERT; with the answer it has prepared
ConfirmPaymentStore(s, body, now) ==
  LET op   == "confirmPayment"
      t1   == PrepareSchema(s.pcTable)
      vals == InsertValues(body, now)
      row  == InsertedRow(vals, Len(s.txns) + 1, s.sqlStrict)
  IN IF PaymentMethodMissing(body)
     THEN Outcome(s, Response(op, 400))
     ELSE IF t1 # "full" \/ row.order_type = SqlError
     THEN Outcome([s EXCEPT !.pcTable = t1], Response(op, 500))
     ELSE Outcome([s EXCEPT !.pcTable = t1, !.txns = Append(s.txns, row)],
                  [Response(op, 200) EXCEPT
                     !.mail = MailTemplate(body),
                     !.data = [id |-> row.id, order_id |-> body.order_id,
                               status |-> "pending"]])

\* The notification step has no catch of its own
EmailErrorUncaught(mailOk) == ~mailOk

\* try { await send...() } catch (emailError) { console.error }: a failure of
\* the sender never leaves the notification step
EmailErrorEscapes(mailOk) == FALSE

\* The answer once the awaited sender has settled
ConfirmPaymentAnswer(res, mailOk) ==
  IF EmailErrorEscapes(mailOk) THEN Response(res.op, 500)
  ELSE [res EXCEPT !.mailFailed = ~mailOk]

\* The whole handler on database s
ConfirmPaymentResult(s, body, now, mailOk) ==
  LET stored == ConfirmPaymentStore(s, body, now) IN
    IF stored.res.code # 200 THEN stored
    ELSE Outcome(stored.db, ConfirmPaymentAnswer(stored.res, mailOk))

ConfirmPayment(inputs, times, mailOutcomes) ==
  \E body \in inputs, now \in times, mailOk \in mailOutcomes :
    \E r \in {ConfirmPaymentResult(Db, body, now, mailOk)} :
      /\ Len(r.db.txns) <= MaxTxns
      /\ pcTable' = r.db.pcTable
      /\ txns' = r.db.txns
      /\ UNCHANGED <<accounts, emailsSent, sqlStrict, ordersTable, orders, pickupTable, pickups, inflight>>

----------------------------------------------------------------------------
(* updatePaymentTransactionStatus *)

\* String.prototype.toLowerCase on the status strings requests carry
ToLowerCase(s) ==
  CASE s = "VERIFIED" -> "verified"
    [] s = "Rejected" -> "rejected"
    [] OTHER -> s

\* The action is consulted before the status
ResolveActionFirst(rawStatus, action) ==
  IF action = "approve" THEN "verified"
  ELSE IF action = "decline" THEN "rejected"
  ELSE ToLowerCase(OrElse(rawStatus, ""))

\* The declining action is spelled 'rejected' instead of 'decline'
ResolveRejectedAction(rawStatus, action) ==
  LET direct == ToLowerCase(OrElse(rawStatus, "")) IN
    IF direct = "" /\ ~Falsy(action)
    THEN IF action = "rejected" THEN "rejected"
         ELSE IF action = "approve" THEN "verified"
         ELSE direct
    ELSE direct

\* nextStatus: the lower-cased status, or, when that is empty, the action mapped
ResolveNextStatus(rawStatus, action) ==
  LET direct == ToLowerCase(OrElse(rawStatus, "")) IN
    IF direct = "" /\ ~Falsy(action)
    THEN IF action = "decline" THEN "rejected"
         ELSE IF action = "approve" THEN "verified"
         ELSE direct
    ELSE direct

\* The allow-list also lets an order status through
AllowedStatusesLax == {"pending", "verified", "rejected", "shipped"}

AllowedStatuses == {"pending", "verified", "rejected"}

\* The lookup only finds transactions that are still pending
SelectPendingTransaction(rows, id) ==
  {i \in 1..Len(rows) : rows[i].id = id /\ rows[i].status = "pending"}

\* The lookup has no WHERE clause
SelectAnyTransaction(rows, id) == 1..Len(rows)

\* SELECT * FROM payment_confirmations WHERE id = ? LIMIT 1
SelectTransaction(rows, id) == {i \in 1..Len(rows) : rows[i].id = id}

\* The notes column is written whether or not the request carries notes
UpdateTransactionRowAlwaysNotes(rows, id, nextStatus, notes) ==
  [i \in 1..Len(rows) |->
     IF rows[i].id # id THEN rows[i]
     ELSE [rows[i] EXCEPT !.status = nextStatus,
                          !.notes = OrElse(Default(notes, NULL), NULL)]]

\* UPDATE payment_confirmations SET status = ?[, notes = ?] WHERE id = ?
UpdateTransactionRow(rows, id, nextStatus, notes) ==
  [i \in 1..Len(rows) |->
     IF rows[i].id # id THEN rows[i]
     ELSE IF notes = UNDEFINED
          THEN [rows[i] EXCEPT !.status = nextStatus]
          ELSE [rows[i] EXCEPT !.status = nextStatus, !.notes = OrElse(notes, NULL)]]

\* formatTransactionRow, on the fields the handler goes on to use
FormatTransactionRow(row) ==
  [row EXCEPT !.status = OrElse(row.status, "pending"),
              !.order_type = OrElse(row.order_type, "delivery")]

\* A transition to pending is given an order status as well
MapPendingToOrderStatus(status) ==
  CASE status = "verified" -> "successful"
    [] status = "rejected" -> "failed"
    [] status = "pending" -> "pending"
    [] OTHER -> NULL

\* mapTransactionStatusToOrderStatus
MapTransactionStatusToOrderStatus(status) ==
  CASE status = "verified" -> "successful"
    [] status = "rejected" -> "failed"
    [] OTHER -> NULL

\* The order table receives the intermediate status unmapped
StatusToSetUnmapped(isPickup, targetOrderStatus) ==
  IF targetOrderStatus = "failed" THEN "canceled" ELSE targetOrderStatus

\* statusToSet: the status written to the order table
StatusToSet(isPickup, targetOrderStatus) ==
  IF isPickup /\ targetOrderStatus = "successful" THEN "pending"
  ELSE IF ~isPickup /\ targetOrderStatus = "successful" THEN "processing"
  ELSE IF targetOrderStatus = "failed" THEN "canceled"
  ELSE targetOrderStatus

\* Both order tables are only ever created by DDL that has an order_id column
HasOrderIdColumn(tableExists) == tableExists

\* An update that matches no row is treated as a failure
UpdateOrderStatusMustMatch(rows, matched, statusToSet, enum, strict) ==
  LET stored == StoreEnum(statusToSet, enum, strict)
      hit    == IF matched = {} THEN {}
                ELSE {CHOOSE i \in matched : \A j \in matched : i <= j}
  IN IF hit = {} \/ stored = SqlError
     THEN [rows |-> rows, affectedRows |-> 0, error |-> TRUE]
     ELSE [rows |-> [i \in 1..Len(rows) |->
                       IF i \in hit THEN [rows[i] EXCEPT !.status = stored]
                       ELSE rows[i]],
           affectedRows |-> Cardinality(hit), error |-> FALSE]

\* The UPDATE also requires the row to be pending still
UpdateOrderStatusIfPending(rows, matched, statusToSet, enum, strict) ==
  LET stored == StoreEnum(statusToSet, enum, strict)
      open   == {i \in matched : rows[i].status = "pending"}
      hit    == IF open = {} THEN {}
                ELSE {CHOOSE i \in open : \A j \in open : i <= j}
  IN IF hit # {} /\ stored = SqlError
     THEN [rows |-> rows, affectedRows |-> 0, error |-> TRUE]
     ELSE [rows |-> [i \in 1..Len(rows) |->
                       IF i \in hit THEN [rows[i] EXCEPT !.status = stored]
                       ELSE rows[i]],
           affectedRows |-> Cardinality(hit), error |-> FALSE]

\* UPDATE <table> SET status = ? WHERE <key> = ? LIMIT 1 on the rows matched;
\* affectedRows counts matched rows (the driver's default FOUND_ROWS flag).
UpdateOrderStatus(rows, matched, statusToSet, enum, strict) ==
  LET stored == StoreEnum(statusToSet, enum, strict)
      hit    == IF matched = {} THEN {}
                ELSE {CHOOSE i \in matched : \A j \in matched : i <= j}
  IN IF hit # {} /\ stored = SqlError
     THEN [rows |-> rows, affectedRows |-> 0, error |-> TRUE]
     ELSE [rows |-> [i \in 1..Len(rows) |->
                       IF i \in hit THEN [rows[i] EXCEPT !.status = stored]
                       ELSE rows[i]],
           affectedRows |-> Cardinality(hit), error |-> FALSE]

\* The UPDATE carries neither its WHERE clause nor its LIMIT
PropagateOrderStatusNoWhere(rows, tableExists, orderRef, statusToSet, enum, strict) ==
  LET stored == StoreEnum(statusToSet, enum, strict)
  IN IF ~tableExists THEN [rows |-> rows, error |-> FALSE, attempts |-> <<>>]
     ELSE IF stored = SqlError
     THEN [rows |-> rows, error |-> TRUE, attempts |-> <<"byId">>]
     ELSE [rows |-> [i \in 1..Len(rows) |-> [rows[i] EXCEPT !.status = stored]],
           error |-> FALSE, attempts |-> <<"byId">>]

\* The update by order_id is issued whether or not the update by id matched
PropagateOrderStatusBoth(rows, tableExists, orderRef, statusToSet, enum, strict) ==
  LET numericOrderId == IF IsNumeric(orderRef) THEN ToNumber(orderRef) ELSE -1
      byId   == IF numericOrderId >= 0
                THEN UpdateOrderStatus(rows,
                       {i \in 1..Len(rows) : rows[i].id = numericOrderId},
                       statusToSet, enum, strict)
                ELSE [rows |-> rows, affectedRows |-> 0, error |-> FALSE]
      first  == IF numericOrderId >= 0 THEN <<"byId">> ELSE <<>>
      byCode == UpdateOrderStatus(byId.rows,
                       {i \in 1..Len(rows) : rows[i].order_id = orderRef},
                       statusToSet, enum, strict)
  IN IF ~tableExists THEN [rows |-> rows, error |-> FALSE, attempts |-> <<>>]
     ELSE IF byId.error THEN [rows |-> rows, error |-> TRUE, attempts |-> first]
     ELSE [rows |-> byCode.rows, error |-> byCode.error,
           attempts |-> first \o <<"byCode">>]

\* The two documented attempts: by primary key when the reference is numeric,
\* then by the order_id column when nothing was updated.  attempts lists the
\* UPDATE statements the call issues on the order table, in order.
PropagateOrderStatus(rows, tableExists, orderRef, statusToSet, enum, strict) ==
  LET numericOrderId == IF IsNumeric(orderRef) THEN ToNumber(orderRef) ELSE -1
      byId   == IF numericOrderId >= 0
                THEN UpdateOrderStatus(rows,
                       {i \in 1..Len(rows) : rows[i].id = numericOrderId},
                       statusToSet, enum, strict)
                ELSE [rows |-> rows, affectedRows |-> 0, error |-> FALSE]
      first  == IF numericOrderId >= 0 THEN <<"byId">> ELSE <<>>
      orderUpdated == byId.affectedRows > 0
      byCode == UpdateOrderStatus(byId.rows,
                       {i \in 1..Len(rows) : rows[i].order_id = orderRef},
                       statusToSet, enum, strict)
  IN IF ~tableExists THEN [rows |-> rows, error |-> FALSE, attempts |-> <<>>]
     ELSE IF byId.error THEN [rows |-> rows, error |-> TRUE, attempts |-> first]
     ELSE IF ~orderUpdated /\ HasOrderIdColumn(tableExists)
          THEN [rows |-> byCode.rows, error |-> byCode.error,
                attempts |-> first \o <<"byCode">>]
          ELSE [rows |-> byId.rows, error |-> FALSE, attempts |-> first]

\* The handler on database s.  Every statement commits on its own, so a failure
\* of the propagation leaves the transaction row already updated.
UpdateStatusResult(s, id, rawStatus, action, notes) ==
  LET op         == "updatePaymentTransactionStatus"
      nextStatus == ResolveNextStatus(rawStatus, action)
      reply(code) == Response(op, code)
      txns1      == UpdateTransactionRow(s.txns, id, nextStatus, notes)
      found      == CHOOSE i \in SelectTransaction(s.txns, id) : TRUE
      updated    == FormatTransactionRow(txns1[found])
      target     == MapTransactionStatusToOrderStatus(nextStatus)
      isPickup   == updated.order_type = "pickup"
      toSet      == StatusToSet(isPickup, target)
      prop       == IF isPickup
                    THEN PropagateOrderStatus(s.pickups, s.pickupTable,
                                              updated.order_id, toSet,
                                              PickupStatusEnum, s.sqlStrict)
                    ELSE PropagateOrderStatus(s.orders, s.ordersTable,
                                              updated.order_id, toSet,
                                              OrdersStatusEnum, s.sqlStrict)
      data       == [id |-> updated.id, order_id |-> updated.order_id,
                     status |-> updated.status]
  IN IF nextStatus \notin AllowedStatuses
     THEN Outcome(s, reply(400))
     ELSE IF s.pcTable = "absent" \/ SelectTransaction(s.txns, id) = {}
     THEN Outcome(s, reply(404))
     ELSE IF target = NULL \/ updated.order_id = NullText
     THEN Outcome([s EXCEPT !.txns = txns1], [reply(200) EXCEPT !.data = data])
     ELSE IF prop.error
     THEN Outcome([s EXCEPT !.txns = txns1], reply(500))
     ELSE Outcome([s EXCEPT !.txns = txns1,
                            !.orders = IF isPickup THEN @ ELSE prop.rows,
                            !.pickups = IF isPickup THEN prop.rows ELSE @],
                  [reply(200) EXCEPT !.data = data])

UpdatePaymentTransactionStatus(ids, requests, notesIn) ==
  \E id \in ids, rq \in requests, notes \in notesIn :
    \E r \in {UpdateStatusResult(Db, id, rq.status, rq.action, notes)} :
      /\ txns' = r.db.txns
      /\ orders' = r.db.orders
      /\ pickups' = r.db.pickups
      /\ UNCHANGED <<accounts, emailsSent, sqlStrict, pcTable, ordersTable, pickupTable, inflight>>

----------------------------------------------------------------------------
(* The order stores: createOrder and createPickUp *)

\* INSERT of a row with a generated order_id (UNIQUE) and a status (ENUM)
InsertOrderRow(rows, code, status, enum, strict) ==
  LET stored == StoreEnum(status, enum, strict) IN
    IF stored = SqlError \/ \E i \in 1..Len(rows) : rows[i].order_id = code
    THEN [rows |-> rows, error |-> TRUE]
    ELSE [rows |-> Append(rows, [id |-> Len(rows) + 1, order_id |-> code,
                                 status |-> stored]),
          error |-> FALSE]

\* The customer columns of an orders row: customer_name || 'Guest',
\* customer_email || null
OrderCustomer(row, customer) ==
  [id |-> row.id, order_id |-> row.order_id, status |-> row.status,
   customer |-> OrElse(customer.name, "Guest"),
   customer_email |-> OrElse(customer.email, NULL)]

\* A createOrder body that names no customer
Anonymous == [name |-> UNDEFINED, email |-> UNDEFINED]

\* createOrder on database s: the required-field check, CREATE TABLE IF NOT
\* EXISTS, the INSERT
CreateOrderResult(s, hasRequired, code, status, customer) ==
  LET op  == "createOrder"
      ins == InsertOrderRow(s.orders, code, Default(status, "pending"),
                            OrdersStatusEnum, s.sqlStrict)
      s1  == [s EXCEPT !.ordersTable = TRUE, !.orders = ins.rows]
      s2  == [s1 EXCEPT !.orders[Len(ins.rows)] = OrderCustomer(@, customer)]
  IN IF ~hasRequired THEN Outcome(s, Response(op, 400))
     ELSE IF ins.error THEN Outcome(s1, Response(op, 500))
     ELSE Outcome(s2, [Response(op, 201) EXCEPT !.data.id = Len(ins.rows)])

CreateOrder(statuses, customers) ==
  \E hasRequired \in BOOLEAN, code \in Codes, status \in statuses,
     customer \in customers :
    \E r \in {CreateOrderResult(Db, hasRequired, code, status, customer)} :
      /\ Len(r.db.orders) <= MaxOrders
      /\ ordersTable' = r.db.ordersTable
      /\ orders' = r.db.orders
      /\ UNCHANGED <<accounts, emailsSent, sqlStrict, pcTable, txns, pickupTable, pickups, inflight>>

\* createPickUp on database s: CREATE TABLE IF NOT EXISTS, the INSERT
CreatePickUpResult(s, code, status) ==
  LET op  == "createPickUp"
      ins == InsertOrderRow(s.pickups, code, Default(status, "pending"),
                            PickupStatusEnum, s.sqlStrict)
      s1  == [s EXCEPT !.pickupTable = TRUE, !.pickups = ins.rows]
  IN IF ins.error THEN Outcome(s1, Response(op, 500))
     ELSE Outcome(s1, [Response(op, 201) EXCEPT !.data.id = Len(ins.rows)])

CreatePickUp(statuses) ==
  \E code \in Codes, status \in statuses :
    \E r \in {CreatePickUpResult(Db, code, status)} :
      /\ Len(r.db.pickups) <= MaxPickups
      /\ pickupTable' = r.db.pickupTable
      /\ pickups' = r.db.pickups
      /\ UNCHANGED <<accounts, emailsSent, sqlStrict, pcTable, txns, ordersTable, orders, inflight>>

----------------------------------------------------------------------------
(* Requests in flight *)

\* No create request is at its notification step
NothingSent ==
  [phase |-> "idle", sender |-> "none", res |-> Response("none", 0)]

\* The transition calls that can be in flight together
MaxCalls == 2

CallIds == 1..MaxCalls

\* A call that has not begun: no statement run, nothing written, no answer
NoCall ==
  [pc |-> "idle", id |-> 0, next |-> "", row |-> NoData, txnAt |-> 0,
   orderAt |-> 0, res |-> Response("none", 0)]

NoCalls == [c \in CallIds |-> NoCall]

\* const connection = await db.getConnection()
GetConnection(n) == n + 1

\* The release is the last statement of the try block: a path that returns
\* early or throws does not reach it
ReleaseAfterAnswer(n, code) == IF code = 200 THEN n - 1 ELSE n

\* finally { if (connection) connection.release(); }: it runs once, whatever
\* the handler answered
ReleaseInFinally(n, code) == n - 1

----------------------------------------------------------------------------
(* Password reset: requestPasswordReset, verifyForgotOtp, resetPassword *)

\* The e-mail addresses that have a customers row
Customers == {"a@x.ng", "b@x.ng"}

\* email.trim().toLowerCase()
NormalizeEmail(email) == IF email = " A@X.ng " THEN "a@x.ng" ELSE email

\* The clock counts spans of five minutes
MaxClock == 4

\* 10 * 60 * 1000 milliseconds
OtpWindow == 2

\* No forgotPassword member in the session
NoSession == [email |-> NULL, otp |-> NULL, ts |-> 0, verified |-> FALSE]

\* What the reset flow reads and writes
Auth == [forgotPassword |-> forgotPassword, passwords |-> passwords]

AuthOutcome(auth, code) == [auth |-> auth, code |-> code]

\* requestPasswordReset on auth: an address without a customers row is
\* answered 200 with the session left alone; otherwise the session member is
\* replaced.  A failure of sendOTPEmail is caught and changes nothing.
RequestPasswordResetResult(a, email, otp, now) ==
  IF Falsy(email) THEN AuthOutcome(a, 400)
  ELSE IF NormalizeEmail(email) \notin Customers THEN AuthOutcome(a, 200)
  ELSE AuthOutcome([a EXCEPT !.forgotPassword =
                      [email |-> NormalizeEmail(email), otp |-> otp, ts |-> now,
                       verified |-> FALSE]],
                   200)

\* verifyForgotOtp on auth
VerifyForgotOtpResult(a, email, otp, now) ==
  LET sess == a.forgotPassword IN
    IF Falsy(email) \/ Falsy(otp) THEN AuthOutcome(a, 400)
    ELSE IF sess = NoSession \/ sess.email # email THEN AuthOutcome(a, 400)
    ELSE IF now - sess.ts > OtpWindow
    THEN AuthOutcome([a EXCEPT !.forgotPassword = NoSession], 400)
    ELSE IF sess.otp # otp THEN AuthOutcome(a, 400)
    ELSE AuthOutcome([a EXCEPT !.forgotPassword.verified = TRUE], 200)

\* The session names the address; whether the code was verified is not asked
ResetAllowedUnverified(sess, email) == sess # NoSession /\ sess.email = email

\* !(!s || s.email !== email || s.verified !== true)
ResetAllowed(sess, email) ==
  sess # NoSession /\ sess.email = email /\ sess.verified = TRUE

\* resetPassword on auth: UPDATE customers SET password = ? WHERE email = ?,
\* then delete req.session.forgotPassword
ResetPasswordResult(a, email, newPassword) ==
  IF Falsy(email) \/ Falsy(newPassword) THEN AuthOutcome(a, 400)
  ELSE IF ~ResetAllowed(a.forgotPassword, email) THEN AuthOutcome(a, 400)
  ELSE AuthOutcome(
         [forgotPassword |-> NoSession,
          passwords |-> [c \in Customers |->
                           IF c = email THEN newPassword ELSE a.passwords[c]]],
         200)

\* No code issued to a customer yet
NoProof == [otp |-> NULL, ts |-> 0, ok |-> FALSE]

RequestPasswordReset(emails, otps) ==
  \E email \in emails, otp \in otps :
    LET r == RequestPasswordResetResult(Auth, email, otp, clock) IN
      /\ forgotPassword' = r.auth.forgotPassword
      /\ passwords' = r.auth.passwords
      /\ proof' = IF ~Falsy(email) /\ NormalizeEmail(email) \in Customers
                  THEN [proof EXCEPT ![NormalizeEmail(email)] =
                          [otp |-> otp, ts |-> clock, ok |-> FALSE]]
                  ELSE proof
      /\ UNCHANGED <<payments, inflight, emailsSent, clock>>

VerifyForgotOtp(emails, otps) ==
  \E email \in emails, otp \in otps :
    LET r == VerifyForgotOtpResult(Auth, email, otp, clock) IN
      /\ forgotPassword' = r.auth.forgotPassword
      /\ passwords' = r.auth.passwords
      /\ proof' = IF /\ r.code = 200
                     /\ email \in Customers
                     /\ proof[email].otp = otp
                     /\ clock - proof[email].ts <= OtpWindow
                  THEN [proof EXCEPT ![email].ok = TRUE]
                  ELSE proof
      /\ UNCHANGED <<payments, inflight, emailsSent, clock>>

ResetPassword(emails, newPasswords) ==
  \E email \in emails, newPassword \in newPasswords :
    LET r == ResetPasswordResult(Auth, email, newPassword) IN
      /\ forgotPassword' = r.auth.forgotPassword
      /\ passwords' = r.auth.passwords
      /\ proof' = IF r.code = 200 /\ email \in Customers
                  THEN [proof EXCEPT ![email].ok = FALSE]
                  ELSE proof
      /\ UNCHANGED <<payments, inflight, emailsSent, clock>>

\* Five minutes pass
Tick ==
  /\ clock < MaxClock
  /\ clock' = clock + 1
  /\ UNCHANGED <<payments, inflight, emailsSent, forgotPassword, passwords, proof>>

\* The email member of the request bodies: two customers, one of them also
\* as typed with capitals and blanks, a stranger, none
ResetEmails == {"a@x.ng", " A@X.ng ", "b@x.ng", "c@x.ng", UNDEFINED}

\* generateOTP() yields one of these; a request may also carry neither
Otps == {"111111", "222222"}

OtpInputs == Otps \cup {UNDEFINED}

NewPasswords == {"new", UNDEFINED}

ResetNext ==
  \/ RequestPasswordReset(ResetEmails, Otps)
  \/ VerifyForgotOtp(ResetEmails, OtpInputs)
  \/ ResetPassword(ResetEmails, NewPasswords)
  \/ Tick

----------------------------------------------------------------------------
(* sendEmail: one message and one emails_sent row per recipient *)

\* The rows of emails_sent a model run may hold
MaxEmails == 3

RECURSIVE TrimStart(_)
\* The text without its leading blanks
TrimStart(t) == IF Len(t) > 0 /\ Head(t) = " " THEN TrimStart(Tail(t)) ELSE t

RECURSIVE TrimEnd(_)
\* The text without its trailing blanks
TrimEnd(t) ==
  IF Len(t) > 0 /\ t[Len(t)] = " " THEN TrimEnd(SubSeq(t, 1, Len(t) - 1)) ELSE t

\* String.prototype.trim on a sequence of characters
Trim(t) == TrimEnd(TrimStart(t))

\* recipient.email.length > 3 && recipient.email.includes('@')
UsableAddress(t) == Len(t) > 3 /\ \E i \in 1..Len(t) : t[i] = "@"

\* sanitizeRecipients on an array: trim the address and the name of every
\* recipient, keep those with a usable address
SanitizeRecipients(recipients) ==
  SelectSeq([i \in 1..Len(recipients) |->
               [email |-> Trim(recipients[i].email),
                name |-> Trim(recipients[i].name)]],
            LAMBDA r : UsableAddress(r.email))

VALID_EMAIL_TYPES == {"transactional", "promotional", "newsletter"}

\* The three tests on subject, content and type
FieldsMissing(body) ==
  \/ Falsy(body.subject)
  \/ Falsy(body.content)
  \/ Falsy(body.type) \/ body.type \notin VALID_EMAIL_TYPES

\* The row of emails_sent stored for one recipient
SentRow(body, recipient, status) ==
  [type |-> body.type, status |-> status, recipient_email |-> recipient.email,
   recipient_name |-> IF Len(recipient.name) = 0 THEN NullText ELSE recipient.name]

NoProgress == [rows |-> <<>>, delivered |-> 0, failed |-> 0, failures |-> <<>>,
               error |-> FALSE]

RECURSIVE SendLoopUntilFailure(_, _, _, _, _)
\* The loop leaves at the first recipient whose send fails
SendLoopUntilFailure(body, recipients, sent, failAt, k) ==
  IF k > Len(recipients) THEN NoProgress
  ELSE IF failAt = k THEN [NoProgress EXCEPT !.error = TRUE]
  ELSE IF ~sent[k]
  THEN [NoProgress EXCEPT
          !.rows = <<SentRow(body, recipients[k], "failed")>>,
          !.failed = 1, !.failures = <<recipients[k].email>>]
  ELSE LET rest == SendLoopUntilFailure(body, recipients, sent, failAt, k + 1) IN
         [rest EXCEPT
            !.rows = <<SentRow(body, recipients[k], "delivered")>> \o rest.rows,
            !.delivered = rest.delivered + 1]

RECURSIVE SendLoop(_, _, _, _, _)
\* for (const recipient of normalizedRecipients), from recipient k on: the
\* send, whose failure is caught and counted, then the INSERT, whose failure
\* (at recipient failAt) leaves the loop.  sent[k] tells whether
\* sendEmailMessage returns for recipient k.
SendLoop(body, recipients, sent, failAt, k) ==
  IF k > Len(recipients) THEN NoProgress
  ELSE IF failAt = k THEN [NoProgress EXCEPT !.error = TRUE]
  ELSE LET rest   == SendLoop(body, recipients, sent, failAt, k + 1)
           status == IF sent[k] THEN "delivered" ELSE "failed"
       IN [rest EXCEPT
             !.rows = <<SentRow(body, recipients[k], status)>> \o rest.rows,
             !.delivered = rest.delivered + (IF sent[k] THEN 1 ELSE 0),
             !.failed = rest.failed + (IF sent[k] THEN 0 ELSE 1),
             !.failures = (IF sent[k] THEN <<>> ELSE <<recipients[k].email>>)
                            \o rest.failures]

\* sendEmail on the rows of emails_sent: what it leaves and what it answers
SendEmailResult(rows, body, sent, failAt) ==
  LET recipients == SanitizeRecipients(body.recipients)
      done       == SendLoop(body, recipients, sent, failAt, 1)
      none       == [code |-> 422, rows |-> rows, delivered |-> 0, failed |-> 0,
                     failures |-> <<>>]
  IN IF FieldsMissing(body) \/ Len(recipients) = 0 THEN none
     ELSE IF done.error THEN [none EXCEPT !.code = 500, !.rows = rows \o done.rows]
     ELSE [code |-> 200, rows |-> rows \o done.rows, delivered |-> done.delivered,
           failed |-> done.failed, failures |-> done.failures]

SendEmail(bodies, sendOutcomes, failures) ==
  \E body \in bodies, sent \in sendOutcomes, failAt \in failures :
    LET r == SendEmailResult(emailsSent, body, sent, failAt) IN
      /\ Len(r.rows) <= MaxEmails
      /\ emailsSent' = r.rows
      /\ UNCHANGED <<payments, inflight, accounts>>

\* Recipients as a client may send them: usable, usable once trimmed, too
\* short, without an at sign
Ada == [email |-> <<"a", "@", "x", ".", "n">>, name |-> <<"A", "d", "a">>]

Bola == [email |-> <<" ", "b", "@", "y", "z", " ">>, name |-> <<" ">>]

TooShort == [email |-> <<"c", "@", "d", " ">>, name |-> <<>>]

NoAt == [email |-> <<"n", "o", "n", "e">>, name |-> <<>>]

RecipientLists ==
  {<<>>, <<Ada>>, <<Bola>>, <<TooShort>>, <<Ada, Bola>>, <<Bola, Ada>>,
   <<NoAt, Ada>>, <<Ada, TooShort, Bola>>, <<Ada, Ada>>}

Mailing(recipients) ==
  [subject |-> "Sale", content |-> "Hello", type |-> "promotional",
   recipients |-> recipients]

\* sendEmail bodies: every recipient list, and bodies that fail validation
MailBodies ==
  {Mailing(l) : l \in RecipientLists}
    \cup {[Mailing(<<Ada>>) EXCEPT !.type = "spam"],
          [Mailing(<<Ada>>) EXCEPT !.subject = UNDEFINED]}

\* Which sends return, recipient by recipient
SendOutcomes == [1..2 -> BOOLEAN]

\* The recipient whose INSERT fails; 0 when none does
InsertFailures == 0..2

MailNext == SendEmail(MailBodies, SendOutcomes, InsertFailures)

----------------------------------------------------------------------------
(* Request inputs *)

Times == {7}

EmptyBody ==
  [order_id |-> <<>>, payment_method |-> UNDEFINED, amount |-> <<"0">>,
   customer_name |-> UNDEFINED, customer_email |-> UNDEFINED,
   customer_phone |-> UNDEFINED, transaction_reference |-> <<>>,
   notes |-> UNDEFINED, order_type |-> UNDEFINED]

\* confirmPayment bodies of the reconciliation flow: a delivery and a pickup that
\* name a primary key, a delivery that names an order code, a delivery that
\* names no order, a delivery that supplies its own reference, and bodies whose
\* payment_method is absent or empty
ReconcileBodies ==
  {[EmptyBody EXCEPT !.order_id = b[1], !.order_type = b[2],
                     !.transaction_reference = b[3],
                     !.payment_method = "bank_transfer",
                     !.amount = <<"5", "0", "0", "0">>] :
     b \in {<<<<"1">>, UNDEFINED, <<>>>>, <<<<"1">>, "pickup", <<>>>>,
            <<CodeA, UNDEFINED, <<>>>>, <<NullText, UNDEFINED, <<>>>>,
            <<<<"2">>, "delivery", <<"R", "1">>>>}}
  \cup {EmptyBody, [EmptyBody EXCEPT !.payment_method = ""]}

TxnIds == 1..(MaxTxns + 1)

Request(status, action) == [status |-> status, action |-> action]

\* Request bodies of the transition endpoint: a direct status, an action, both
\* or neither
StatusRequests ==
  {Request("verified", UNDEFINED), Request("VERIFIED", UNDEFINED),
   Request("rejected", UNDEFINED), Request("pending", UNDEFINED),
   Request("shipped", UNDEFINED), Request(UNDEFINED, "approve"),
   Request(UNDEFINED, "decline"), Request(UNDEFINED, "rejected"),
   Request("shipped", "approve"), Request(UNDEFINED, UNDEFINED)}

----------------------------------------------------------------------------
(* Specification *)

Init ==
  /\ sqlStrict \in BOOLEAN
  /\ pcTable \in {"absent", "noOrderType", "full"}
  /\ txns = <<>>
  /\ ordersTable = FALSE
  /\ orders = <<>>
  /\ pickupTable = FALSE
  /\ pickups = <<>>
  /\ sending = NothingSent
  /\ calls = NoCalls
  /\ borrowed = 0
  /\ forgotPassword = NoSession
  /\ passwords = [c \in Customers |-> "old"]
  /\ clock = 0
  /\ proof = [c \in Customers |-> NoProof]
  /\ emailsSent = <<>>

Next ==
  \/ ConfirmPayment(ReconcileBodies, Times, BOOLEAN)
  \/ UpdatePaymentTransactionStatus(TxnIds, StatusRequests, {UNDEFINED})
  \/ CreateOrder({UNDEFINED}, {Anonymous})
  \/ CreatePickUp({UNDEFINED})

Spec == Init /\ [][Next]_vars

\* The reset flow of one session
ResetSpec == Init /\ [][ResetNext]_vars

\* Mailings sent one after the other
MailSpec == Init /\ [][MailNext]_vars

----------------------------------------------------------------------------
(* getPaymentTransactions *)

RECURSIVE Reverse(_)
Reverse(rows) ==
  IF Len(rows) = 0 THEN <<>> ELSE Append(Reverse(Tail(rows)), Head(rows))

\* ORDER BY created_at DESC, for rows created one after the other
NewestFirst(rows) == Reverse(rows)

NoLookup == [found |-> FALSE, name |-> NULL, email |-> NULL, phone |-> NULL]

\* getOrderDetailsMap followed by orderDetails.get(row.order_id.toString()):
\* only numeric references are looked up, only in orders, by primary key; orders
\* has the columns customer and customer_email and no customer_phone; a
\* missing table is an error that getOrderDetailsMap swallows.
OrderLookup(s, ref) ==
  LET hits == {i \in 1..Len(s.orders) :
                 IsNumeric(ref) /\ s.orders[i].id = ToNumber(ref)
                                /\ DigitsOf(s.orders[i].id) = ref}
      row  == s.orders[CHOOSE i \in hits : TRUE]
  IN IF ~s.ordersTable \/ hits = {} THEN NoLookup
     ELSE [found |-> TRUE, name |-> OrElse(row.customer, NULL),
           email |-> OrElse(row.customer_email, NULL), phone |-> NULL]

\* The em dash the list shows for a transaction without any name (U+2014)
Placeholder == "<em dash>"

\* The name falls back to the e-mail address alone
NameFromEmailOnly(name, email, phone) ==
  IF Falsy(name) THEN OrElse(email, NULL) ELSE name

\* if (!formatted.customer_name) customer_name = customer_email || customer_phone || null
NameFromContacts(name, email, phone) ==
  IF Falsy(name) THEN OrElse(OrElse(email, phone), NULL) ELSE name

\* One element of the data array: formatTransactionRow, the order lookup, the
\* name fallback, the placeholder
ListRow(s, row) ==
  LET f      == FormatTransactionRow(row)
      lk     == OrderLookup(s, row.order_id)
      name1  == IF lk.found THEN OrElse(OrElse(f.customer_name, lk.name), NULL)
                ELSE f.customer_name
      email1 == IF lk.found THEN OrElse(OrElse(f.customer_email, lk.email), NULL)
                ELSE f.customer_email
      phone1 == IF lk.found THEN OrElse(OrElse(f.customer_phone, lk.phone), NULL)
                ELSE f.customer_phone
  IN [f EXCEPT !.customer_name = OrElse(NameFromContacts(name1, email1, phone1),
                                        Placeholder),
               !.customer_email = OrElse(email1, NULL),
               !.customer_phone = OrElse(phone1, NULL)]

\* The handler on database s.  It writes nothing.  Its SELECT names the
\* order_type column, which a table created by confirmPayment's own DDL lacks.
GetPaymentTransactionsResult(s) ==
  LET op   == "getPaymentTransactions"
      rows == NewestFirst(s.txns)
  IN IF s.pcTable = "absent"
     THEN Outcome(s, [Response(op, 200) EXCEPT !.data = <<>>])
     ELSE IF s.pcTable = "noOrderType"
     THEN Outcome(s, Response(op, 500))
     ELSE Outcome(s, [Response(op, 200) EXCEPT
                        !.data = [i \in 1..Len(rows) |-> ListRow(s, rows[i])]])

----------------------------------------------------------------------------
(* The payment router: verifyAdmin in front of the admin routes *)

\* What the Authorization header amounts to: the token (none, invalid, valid),
\* the role the token carries, and the role column of the staff row the token
\* names ("absent" when there is no such row, NULL when it has no role)
Credential(token, role, staff) == [token |-> token, role |-> role, staff |-> staff]

\* verifyBaseToken(req, res, next, 'admin'): 0 when it calls next(), otherwise
\* the status it answers with
VerifyAdmin(cred) ==
  LET role == IF ~Falsy(cred.staff) THEN cred.staff
              ELSE IF ~Falsy(cred.role) THEN cred.role
              ELSE "admin"
  IN IF cred.token # "valid" THEN 401
     ELSE IF cred.role = "customer" THEN 403
     ELSE IF cred.staff = "absent" THEN 401
     ELSE IF role \notin {"admin", "super-admin"} THEN 403
     ELSE 0

Denied(s, code) == Outcome(s, Response("verifyAdmin", code))

\* router.post('/confirm', confirmPayment)
PostConfirmRoute(s, cred, body, now, mailOk) ==
  ConfirmPaymentResult(s, body, now, mailOk)

\* router.get('/transactions', verifyAdmin, getPaymentTransactions)
GetTransactionsRoute(s, cred) ==
  IF VerifyAdmin(cred) # 0 THEN Denied(s, VerifyAdmin(cred))
  ELSE GetPaymentTransactionsResult(s)

\* The transition route is registered without the middleware
PatchStatusRouteOpen(s, cred, id, rq) ==
  UpdateStatusResult(s, id, rq.status, rq.action, UNDEFINED)

\* router.patch('/transactions/:id/status', verifyAdmin,
\*              updatePaymentTransactionStatus)
PatchStatusRoute(s, cred, id, rq) ==
  IF VerifyAdmin(cred) # 0 THEN Denied(s, VerifyAdmin(cred))
  ELSE UpdateStatusResult(s, id, rq.status, rq.action, UNDEFINED)

PostConfirm(creds, inputs, times, mailOutcomes) ==
  \E cred \in creds, body \in inputs, now \in times, mailOk \in mailOutcomes :
    \E r \in {PostConfirmRoute(Db, cred, body, now, mailOk)} :
      /\ Len(r.db.txns) <= MaxTxns
      /\ pcTable' = r.db.pcTable
      /\ txns' = r.db.txns
      /\ UNCHANGED <<accounts, emailsSent, sqlStrict, ordersTable, orders, pickupTable, pickups, inflight>>

GetTransactions(creds) ==
  \E cred \in creds :
    \E r \in {GetTransactionsRoute(Db, cred)} :
      /\ r.db = Db
      /\ UNCHANGED vars

PatchStatus(creds, ids, requests) ==
  \E cred \in creds, id \in ids, rq \in requests :
    \E r \in {PatchStatusRoute(Db, cred, id, rq)} :
      /\ txns' = r.db.txns
      /\ orders' = r.db.orders
      /\ pickups' = r.db.pickups
      /\ UNCHANGED <<accounts, emailsSent, sqlStrict, pcTable, ordersTable, pickupTable, inflight>>

\* No header, a token that does not verify, a customer's token, a token whose
\* staff row is gone, staff rows with role admin, super-admin and staff, and
\* staff rows without a role under a token with and without one
Creds ==
  {Credential("none", UNDEFINED, "absent"),
   Credential("invalid", "admin", "admin"),
   Credential("valid", "customer", "absent"),
   Credential("valid", "admin", "absent"),
   Credential("valid", "admin", "admin"),
   Credential("valid", "admin", "super-admin"),
   Credential("valid", "admin", "staff"),
   Credential("valid", "staff", NULL),
   Credential("valid", UNDEFINED, NULL)}

\* The callers of the routes: anonymous, a customer, an administrator
Callers ==
  {Credential("none", UNDEFINED, "absent"),
   Credential("valid", "customer", "absent"),
   Credential("valid", "admin", "admin")}

\* Contact details a create body can carry: name, e-mail, phone
Contact(body, name, email, phone) ==
  [body EXCEPT !.customer_name = name, !.customer_email = email,
               !.customer_phone = phone]

PaidBody == [EmptyBody EXCEPT !.payment_method = "bank_transfer",
                              !.amount = <<"5", "0", "0", "0">>]

\* Create bodies as customers submit them: with and without contact details
\* and order, with an order_type outside the two known ones, with a negative
\* and with an unparseable amount, and without payment_method
IntakeBodies ==
  {Contact([PaidBody EXCEPT !.order_id = <<"1">>], UNDEFINED, UNDEFINED, UNDEFINED),
   Contact([PaidBody EXCEPT !.order_id = <<"1">>], UNDEFINED, "a@x.ng", UNDEFINED),
   Contact([PaidBody EXCEPT !.order_id = <<"1">>], "Ada", "a@x.ng", "0801"),
   Contact(PaidBody, UNDEFINED, "a@x.ng", "0801"),
   Contact(PaidBody, "", UNDEFINED, "0801"),
   Contact(PaidBody, UNDEFINED, UNDEFINED, UNDEFINED),
   [PaidBody EXCEPT !.order_type = "express"],
   [PaidBody EXCEPT !.amount = <<"-", "5">>],
   [PaidBody EXCEPT !.amount = <<"a", "b", "c">>],
   EmptyBody}

\* createOrder bodies with and without the customer's name and address
OrderCustomers == {Anonymous, [name |-> "Bola", email |-> "b@x.ng"]}

ApiRequests == {Request("verified", UNDEFINED), Request(UNDEFINED, "decline")}

\* The routes of the payment router, and orders being placed
ApiNext ==
  \/ PostConfirm(Callers, IntakeBodies, Times, {TRUE})
  \/ GetTransactions(Callers)
  \/ PatchStatus(Callers, TxnIds, ApiRequests)
  \/ CreateOrder({UNDEFINED}, OrderCustomers)

ApiSpec == Init /\ [][ApiNext]_vars

----------------------------------------------------------------------------
(* confirmPayment step by step: the handler awaits the notification sender *)

\* The request runs up to the notification step; a request that fails before
\* it is answered at once
ReceiveConfirm(inputs, times) ==
  /\ sending.phase \in {"idle", "responded"}
  /\ \E body \in inputs, now \in times :
       \E r \in {ConfirmPaymentStore(Db, body, now)} :
         /\ Len(r.db.txns) <= MaxTxns
         /\ pcTable' = r.db.pcTable
         /\ txns' = r.db.txns
         /\ sending' = IF r.res.code = 200
                       THEN [phase |-> "sending", sender |-> "pending", res |-> r.res]
                       ELSE [phase |-> "responded", sender |-> "none", res |-> r.res]
         /\ borrowed' = IF r.res.code = 200 THEN GetConnection(borrowed)
                        ELSE ReleaseInFinally(GetConnection(borrowed), r.res.code)
         /\ UNCHANGED <<accounts, emailsSent, sqlStrict, ordersTable, orders, pickupTable, pickups, calls>>

\* The promise of the sender settles: the Gmail call returns, or throws.
\* Nothing bounds the time this takes.
SenderSettles(outcomes) ==
  /\ sending.phase = "sending"
  /\ sending.sender = "pending"
  /\ \E o \in outcomes : sending' = [sending EXCEPT !.sender = o]
  /\ UNCHANGED <<accounts, emailsSent, sqlStrict, pcTable, txns, ordersTable, orders, pickupTable,
                 pickups, calls, borrowed>>

\* The handler resumes after the await and sends its answer
RespondConfirm ==
  /\ sending.phase = "sending"
  /\ sending.sender # "pending"
  /\ sending' = [sending EXCEPT
                   !.phase = "responded",
                   !.res = ConfirmPaymentAnswer(@, sending.sender = "resolved")]
  /\ borrowed' = ReleaseInFinally(borrowed, sending'.res.code)
  /\ UNCHANGED <<accounts, emailsSent, sqlStrict, pcTable, txns, ordersTable, orders, pickupTable,
                 pickups, calls>>

SenderOutcomes == {"resolved", "rejected"}

\* Create requests going through their notification step while orders are placed
NotifyNext ==
  \/ ReceiveConfirm(ReconcileBodies, Times)
  \/ SenderSettles(SenderOutcomes)
  \/ RespondConfirm
  \/ CreateOrder({UNDEFINED}, {Anonymous})

\* The event loop resumes a handler whose awaited promise has settled; nothing
\* makes the sender settle.
NotifySpec == Init /\ [][NotifyNext]_vars /\ WF_vars(RespondConfirm)

----------------------------------------------------------------------------
(* updatePaymentTransactionStatus statement by statement: each statement     *)
(* commits on its own and calls share nothing but the database              *)

\* The position of a write among the writes made so far to the same table
NextWrite(stamps) == 1 + Cardinality({c \in CallIds : stamps[c] > 0})

\* Whether one of the two UPDATEs of the propagation finds a row
MatchesOrder(rows, ref) ==
  \/ IsNumeric(ref) /\ \E i \in 1..Len(rows) : rows[i].id = ToNumber(ref)
  \/ \E i \in 1..Len(rows) : rows[i].order_id = ref

\* Validation, SHOW TABLES and the first SELECT
CallBegins(callIds, ids, requests) ==
  \E c \in callIds, id \in ids, rq \in requests :
    LET nextStatus == ResolveNextStatus(rq.status, rq.action)
        reply(code) == Response("updatePaymentTransactionStatus", code)
    IN /\ calls[c].pc = "idle"
       /\ calls' = [calls EXCEPT ![c] =
            IF nextStatus \notin AllowedStatuses
            THEN [@ EXCEPT !.pc = "done", !.id = id, !.res = reply(400)]
            ELSE IF pcTable = "absent" \/ SelectTransaction(txns, id) = {}
            THEN [@ EXCEPT !.pc = "done", !.id = id, !.res = reply(404)]
            ELSE [@ EXCEPT !.pc = "found", !.id = id, !.next = nextStatus]]
       /\ borrowed' = IF calls'[c].pc = "done"
                      THEN ReleaseInFinally(GetConnection(borrowed), calls'[c].res.code)
                      ELSE GetConnection(borrowed)
       /\ UNCHANGED <<accounts, emailsSent, sqlStrict, pcTable, txns, ordersTable, orders, pickupTable,
                      pickups, sending>>

\* UPDATE payment_confirmations SET status = ? WHERE id = ?
CallUpdates(callIds, notesIn) ==
  \E c \in callIds, notes \in notesIn :
    /\ calls[c].pc = "found"
    /\ txns' = UpdateTransactionRow(txns, calls[c].id, calls[c].next, notes)
    /\ calls' = [calls EXCEPT ![c].pc = "updated",
                              ![c].txnAt = NextWrite([d \in CallIds |-> calls[d].txnAt])]
    /\ UNCHANGED <<accounts, emailsSent, sqlStrict, pcTable, ordersTable, orders, pickupTable, pickups,
                   sending, borrowed>>

\* The second SELECT: the row as it is stored by now
CallSelects(callIds) ==
  \E c \in callIds :
    /\ calls[c].pc = "updated"
    /\ calls' = [calls EXCEPT
         ![c].pc = "selected",
         ![c].row = FormatTransactionRow(
                      txns[CHOOSE i \in SelectTransaction(txns, calls[c].id) : TRUE])]
    /\ UNCHANGED <<accounts, emailsSent, sqlStrict, pcTable, txns, ordersTable, orders, pickupTable,
                   pickups, sending, borrowed>>

\* The propagation, decided by the status this call asked for, and the answer
CallPropagates(callIds) ==
  \E c \in callIds :
    LET updated  == calls[c].row
        target   == MapTransactionStatusToOrderStatus(calls[c].next)
        isPickup == updated.order_type = "pickup"
        toSet    == StatusToSet(isPickup, target)
        prop     == IF isPickup
                    THEN PropagateOrderStatus(pickups, pickupTable, updated.order_id,
                                              toSet, PickupStatusEnum, sqlStrict)
                    ELSE PropagateOrderStatus(orders, ordersTable, updated.order_id,
                                              toSet, OrdersStatusEnum, sqlStrict)
        skipped  == target = NULL \/ updated.order_id = NullText
        reply(code) == Response("updatePaymentTransactionStatus", code)
        data     == [id |-> updated.id, order_id |-> updated.order_id,
                     status |-> updated.status]
    IN /\ calls[c].pc = "selected"
       /\ orders' = IF skipped \/ prop.error \/ isPickup THEN orders ELSE prop.rows
       /\ pickups' = IF skipped \/ prop.error \/ ~isPickup THEN pickups ELSE prop.rows
       /\ calls' = [calls EXCEPT
            ![c].pc = "done",
            ![c].orderAt = IF skipped \/ prop.error
                              \/ ~MatchesOrder(IF isPickup THEN pickups ELSE orders,
                                               updated.order_id)
                           THEN 0
                           ELSE NextWrite([d \in CallIds |-> calls[d].orderAt]),
            ![c].res = IF ~skipped /\ prop.error THEN reply(500)
                       ELSE [reply(200) EXCEPT !.data = data]]
       /\ borrowed' = ReleaseInFinally(borrowed, calls'[c].res.code)
       /\ UNCHANGED <<accounts, emailsSent, sqlStrict, pcTable, txns, ordersTable, pickupTable, sending>>

\* A delivery payment that names order 1
RaceBodies ==
  {[EmptyBody EXCEPT !.order_id = <<"1">>, !.payment_method = "bank_transfer",
                     !.amount = <<"5", "0", "0", "0">>]}

RaceRequests == {Request("verified", UNDEFINED), Request("rejected", UNDEFINED)}

\* Transition calls on transaction 1 running side by side, each started once
RaceNext ==
  \/ ConfirmPayment(RaceBodies, Times, {TRUE})
  \/ CreateOrder({UNDEFINED}, {Anonymous})
  \/ CallBegins(CallIds, {1}, RaceRequests)
  \/ CallUpdates(CallIds, {UNDEFINED})
  \/ CallSelects(CallIds)
  \/ CallPropagates(CallIds)

RaceSpec == Init /\ [][RaceNext]_vars

----------------------------------------------------------------------------
(* The connection pool under the three handlers *)

\* getPaymentTransactions from getConnection to release: it awaits nothing
\* but its own queries
ListCall ==
  /\ borrowed' = ReleaseInFinally(GetConnection(borrowed),
                                  GetPaymentTransactionsResult(Db).res.code)
  /\ UNCHANGED <<accounts, emailsSent, sqlStrict, pcTable, txns, ordersTable, orders, pickupTable,
                 pickups, sending, calls>>

PoolRequests ==
  {Request("verified", UNDEFINED), Request(UNDEFINED, "decline"),
   Request("shipped", UNDEFINED)}

\* Create requests, one transition call and list calls side by side
PoolNext ==
  \/ ReceiveConfirm(ReconcileBodies, Times)
  \/ SenderSettles(SenderOutcomes)
  \/ RespondConfirm
  \/ CallBegins({1}, TxnIds, PoolRequests)
  \/ CallUpdates({1}, {UNDEFINED})
  \/ CallSelects({1})
  \/ CallPropagates({1})
  \/ ListCall
  \/ CreateOrder({UNDEFINED}, {Anonymous})
  \/ CreatePickUp({UNDEFINED})

PoolSpec == Init /\ [][PoolNext]_vars

----------------------------------------------------------------------------
(* Order fulfilment: cancelOrder and markDelivered *)

\* cancelOrder and markDelivered on database s: parseInt(req.params.id) must be
\* a positive number, the orders table must exist, and
\* UPDATE orders SET status = <status> WHERE id = ? must match a row
SetOrderStatusResult(s, op, orderId, status) ==
  LET hit == {i \in 1..Len(s.orders) : s.orders[i].id = orderId} IN
    IF orderId <= 0 THEN Outcome(s, Response(op, 400))
    ELSE IF ~s.ordersTable \/ hit = {} THEN Outcome(s, Response(op, 404))
    ELSE Outcome([s EXCEPT !.orders =
                    [i \in 1..Len(s.orders) |->
                       IF i \in hit
                       THEN [s.orders[i] EXCEPT
                               !.status = StoreEnum(status, OrdersStatusEnum, s.sqlStrict)]
                       ELSE s.orders[i]]],
                 [Response(op, 200) EXCEPT !.data.id = orderId, !.data.status = status])

CancelOrderResult(s, orderId) == SetOrderStatusResult(s, "cancelOrder", orderId, "canceled")

MarkDeliveredResult(s, orderId) ==
  SetOrderStatusResult(s, "markDelivered", orderId, "delivered")

CancelOrder(orderIds) ==
  \E orderId \in orderIds :
    /\ orders' = CancelOrderResult(Db, orderId).db.orders
    /\ UNCHANGED <<accounts, emailsSent, sqlStrict, pcTable, txns, ordersTable, pickupTable, pickups,
                   inflight>>

MarkDelivered(orderIds) ==
  \E orderId \in orderIds :
    /\ orders' = MarkDeliveredResult(Db, orderId).db.orders
    /\ UNCHANGED <<accounts, emailsSent, sqlStrict, pcTable, txns, ordersTable, pickupTable, pickups,
                   inflight>>

\* The :id of the fulfilment routes: 0 is refused, the others may name an order
OrderIds == 0..MaxOrders

\* Create bodies of deliveries that name an order by primary key and by code
FulfilBodies ==
  {[PaidBody EXCEPT !.order_id = <<"1">>], [PaidBody EXCEPT !.order_id = CodeA]}

FulfilRequests ==
  {Request("verified", UNDEFINED), Request("rejected", UNDEFINED),
   Request("pending", UNDEFINED)}

FulfilNext ==
  \/ ConfirmPayment(FulfilBodies, Times, {TRUE})
  \/ UpdatePaymentTransactionStatus(TxnIds, FulfilRequests, {UNDEFINED})
  \/ CreateOrder({UNDEFINED}, {Anonymous})
  \/ CancelOrder(OrderIds)
  \/ MarkDelivered(OrderIds)

FulfilSpec == Init /\ [][FulfilNext]_vars

----------------------------------------------------------------------------
(* The list over delivery and pickup transactions *)

\* Create bodies that name order 1: a delivery and a pickup without contact
\* details, a delivery with them
BackfillBodies ==
  {[PaidBody EXCEPT !.order_id = <<"1">>],
   [PaidBody EXCEPT !.order_id = <<"1">>, !.order_type = "pickup"],
   Contact([PaidBody EXCEPT !.order_id = <<"1">>], "Ada", "a@x.ng", "0801")}

BackfillNext ==
  \/ PostConfirm(Callers, BackfillBodies, Times, {TRUE})
  \/ GetTransactions(Callers)
  \/ PatchStatus(Callers, TxnIds, ApiRequests)
  \/ CreateOrder({UNDEFINED}, OrderCustomers)
  \/ CreatePickUp({UNDEFINED})

BackfillSpec == Init /\ [][BackfillNext]_vars

----------------------------------------------------------------------------
(* Transitions that carry notes *)

\* confirmPayment bodies with and without notes, with and without an order
NoteBodies ==
  {[PaidBody EXCEPT !.order_id = <<"1">>, !.notes = "paid at branch"],
   [PaidBody EXCEPT !.order_id = <<"1">>],
   [PaidBody EXCEPT !.notes = "paid at branch"]}

\* The notes member of a transition request: absent, empty, a text
NoteInputs == {UNDEFINED, "", "checked"}

NoteRequests ==
  {Request("verified", UNDEFINED), Request("pending", UNDEFINED),
   Request(UNDEFINED, "decline"), Request("shipped", UNDEFINED)}

NotesNext ==
  \/ ConfirmPayment(NoteBodies, Times, {TRUE})
  \/ UpdatePaymentTransactionStatus(TxnIds, NoteRequests, NoteInputs)
  \/ CreateOrder({UNDEFINED}, {Anonymous})

NotesSpec == Init /\ [][NotesNext]_vars

----------------------------------------------------------------------------
(* Vocabulary of the properties *)

\* One call of the transition endpoint with the given id and request body
UpdateStep(id, rq) == UpdatePaymentTransactionStatus({id}, {rq}, {UNDEFINED})

\* What one call of the transition endpoint yields on the current database
UpdateResult(id, rq) == UpdateStatusResult(Db, id, rq.status, rq.action, UNDEFINED)

\* What the same call yields when it is made again on what outcome r left
UpdateAgain(r, id, rq) == UpdateStatusResult(r.db, id, rq.status, rq.action, UNDEFINED)

\* The status a request resolves to
Resolved(rq) == ResolveNextStatus(rq.status, rq.action)

HasTxn(id) == \E i \in 1..Len(txns) : txns[i].id = id

TxnIndex(id) == CHOOSE i \in 1..Len(txns) : txns[i].id = id

\* The row of a store that an order reference designates: the row with that
\* primary key when the reference is numeric and such a row exists, otherwise
\* the row with that order_id; 0 when there is none.
ReferencedRow(rows, ref) ==
  IF IsNumeric(ref) /\ \E i \in 1..Len(rows) : rows[i].id = ToNumber(ref)
  THEN CHOOSE i \in 1..Len(rows) : rows[i].id = ToNumber(ref)
  ELSE IF ref # NullText /\ \E i \in 1..Len(rows) : rows[i].order_id = ref
  THEN CHOOSE i \in 1..Len(rows) : rows[i].order_id = ref
  ELSE 0

IsPickup(t) == t.order_type = "pickup"

\* The store of database s that the order type of transaction t selects
StoreOf(s, t) == IF IsPickup(t) THEN s.pickups ELSE s.orders

\* Transaction i is a delivery whose reference designates an order row that
\* has status st
DeliveryOrderIs(i, st) ==
  /\ ~IsPickup(txns[i])
  /\ ReferencedRow(orders, txns[i].order_id) # 0
  /\ orders[ReferencedRow(orders, txns[i].order_id)].status = st

MissingMethod(body) == body.payment_method \in {UNDEFINED, "", NULL}

----------------------------------------------------------------------------
(* C1 *)

\* C1 (as stated): a transaction's stored status only ever changes from
\* pending to verified or from pending to rejected; no step moves a
\* transaction out of verified or rejected into a different status.
C1_StatusOnlyLeavesPending ==
  [][\A i \in 1..Len(txns) :
       txns'[i].status # txns[i].status
         => txns[i].status = "pending" /\ txns'[i].status \in {"verified", "rejected"}]_vars

\* C1 (amended): a stored status is always one of pending, verified, rejected;
\* a new transaction is pending; and a stored status changes only in a
\* transition call on that transaction whose request resolves to the new
\* status, whatever the previous status was.
C1_StatusFollowsTransition ==
  [][/\ \A i \in 1..Len(txns') : txns'[i].status \in TxnStatusEnum
     /\ \A i \in (Len(txns) + 1)..Len(txns') : txns'[i].status = "pending"
     /\ \A i \in 1..Len(txns) :
          txns'[i].status # txns[i].status
            => \E rq \in StatusRequests :
                 /\ UpdateStep(txns[i].id, rq)
                 /\ Resolved(rq) = txns'[i].status]_vars

\* The only transaction is pending again although the order it references has
\* been set to processing, which only its own verification does
C1_Witness ==
  /\ Len(txns) = 1
  /\ txns[1].status = "pending"
  /\ DeliveryOrderIs(1, "processing")

----------------------------------------------------------------------------
(* C2 *)

\* C2: a successful transition to verified of a transaction whose order_id is
\* purely numeric and is the primary key of a row of the store its order type
\* selects leaves that row with status 'processing' for delivery (orders) and
\* 'pending' for pickup (pickup_orders).
C2_VerifiedPropagates ==
  \A id \in TxnIds, rq \in StatusRequests :
    (Resolved(rq) = "verified" /\ HasTxn(id))
      => LET t == txns[TxnIndex(id)]
             n == ToNumber(t.order_id)
             r == UpdateResult(id, rq)
         IN (r.res.success /\ IsNumeric(t.order_id) /\ n \in 1..Len(StoreOf(Db, t)))
              => StoreOf(r.db, t)[n].status
                   = IF IsPickup(t) THEN "pending" ELSE "processing"

\* A verified delivery transaction with a numeric reference whose order is
\* processing
C2_Witness ==
  \E i \in 1..Len(txns) :
    /\ txns[i].status = "verified"
    /\ IsNumeric(txns[i].order_id)
    /\ ToNumber(txns[i].order_id) \in 1..Len(orders)
    /\ DeliveryOrderIs(i, "processing")

----------------------------------------------------------------------------
(* C3 *)

\* C3: a transition to rejected of a transaction that references a row of the
\* store its order type selects reports success and leaves that row with
\* status 'canceled', for delivery and for pickup alike.
C3_RejectedCancels ==
  \A id \in TxnIds, rq \in StatusRequests :
    (/\ Resolved(rq) = "rejected"
     /\ HasTxn(id)
     /\ ReferencedRow(StoreOf(Db, txns[TxnIndex(id)]), txns[TxnIndex(id)].order_id) # 0)
    => LET t == txns[TxnIndex(id)]
           n == ReferencedRow(StoreOf(Db, t), t.order_id)
           r == UpdateResult(id, rq)
       IN /\ r.res.code = 200
          /\ StoreOf(r.db, t)[n].status = "canceled"

----------------------------------------------------------------------------
(* C4 *)

\* C4: when a successful transition to verified is made a second time on the
\* database the first call left, the second call answers exactly as the first
\* did (success, same transaction) and leaves every transaction, order and
\* pickup row as the first call left it, the transaction verified.
C4_VerifiedTwiceIsOnce ==
  \A id \in TxnIds, rq \in StatusRequests :
    (Resolved(rq) = "verified" /\ HasTxn(id))
      => LET once  == UpdateResult(id, rq)
             twice == UpdateAgain(once, id, rq)
         IN once.res.success
              => /\ twice.res = once.res
                 /\ twice.db = once.db
                 /\ twice.db.txns[TxnIndex(id)].status = "verified"

\* A transaction has been verified and its order set to processing, next to
\* another order; verifying it again succeeds and leaves the database as it is
C4_Witness ==
  \E i \in 1..Len(txns) :
    /\ txns[i].status = "verified"
    /\ DeliveryOrderIs(i, "processing")
    /\ Len(orders) > 1
    /\ LET r == UpdateResult(txns[i].id, Request("verified", UNDEFINED)) IN
         r.res.success /\ r.db = Db

----------------------------------------------------------------------------
(* C5 *)

\* C5: every create call with a non-empty payment_method succeeds, persists one
\* new pending transaction whose reference is the supplied one or a
\* synthesized TRANS-<millis>, and echoes the new id, the order_id and
\* status 'pending'.
C5_CreateSucceeds ==
  \A body \in ReconcileBodies, now \in Times, mailOk \in BOOLEAN :
    ~MissingMethod(body)
      => LET r == ConfirmPaymentResult(Db, body, now, mailOk) IN
           /\ r.res.code = 200
           /\ Len(r.db.txns) = Len(txns) + 1
           /\ LET row == r.db.txns[Len(r.db.txns)] IN
                /\ row.status = "pending"
                /\ row.transaction_reference # NullText
                /\ row.transaction_reference
                     = IF body.transaction_reference = NullText
                       THEN TransPrefix \o DigitsOf(now)
                       ELSE body.transaction_reference
                /\ r.res.data = [id |-> row.id, order_id |-> body.order_id,
                                 status |-> "pending"]

----------------------------------------------------------------------------
(* C6 *)

\* C6: a create call whose payment_method is missing or empty answers 400,
\* inserts no transaction (the database is left as it was) and dispatches no
\* notification.
C6_MissingMethodRejected ==
  \A body \in ReconcileBodies, now \in Times, mailOk \in BOOLEAN :
    MissingMethod(body)
      => LET r == ConfirmPaymentResult(Db, body, now, mailOk) IN
           /\ r.res.code = 400
           /\ ~r.res.success
           /\ r.res.mail = "none"
           /\ r.db = Db

\* A database on which a valid create would insert, and on which the create
\* without payment_method answers 400
C6_Witness ==
  /\ pcTable = "full"
  /\ Len(txns) < MaxTxns
  /\ Len(orders) > 0
  /\ ConfirmPaymentResult(Db, EmptyBody, 7, TRUE).res.code = 400

----------------------------------------------------------------------------
(* C7 *)

\* C7 (as stated): a transition call on an id that matches no transaction
\* answers 404 and changes no row of any store.
C7_UnknownIdIs404 ==
  \A id \in TxnIds, rq \in StatusRequests :
    ~HasTxn(id)
      => LET r == UpdateResult(id, rq) IN
           r.res.code = 404 /\ r.db = Db

\* C7 (amended): a transition call on an id that matches no transaction
\* changes no row of any store and answers 404 when its request resolves to
\* an allowed status, 400 when it does not.
C7_UnknownIdChangesNothing ==
  \A id \in TxnIds, rq \in StatusRequests :
    ~HasTxn(id)
      => LET r == UpdateResult(id, rq) IN
           /\ r.db = Db
           /\ ~r.res.success
           /\ r.res.code = IF Resolved(rq) \in TxnStatusEnum THEN 404 ELSE 400

\* Transactions and orders exist, and a transition on an id that none of the
\* transactions has answers 404
C7_Witness ==
  /\ Len(txns) > 0
  /\ Len(orders) > 0
  /\ \E id \in TxnIds :
       /\ ~HasTxn(id)
       /\ UpdateResult(id, Request("verified", UNDEFINED)).res.code = 404

----------------------------------------------------------------------------
(* C8 *)

\* Requests that resolve to no allowed status: an unrecognized status, an
\* unrecognized action, an unrecognized status with an action, nothing at all
InvalidRequests ==
  {Request("shipped", UNDEFINED), Request(UNDEFINED, "rejected"),
   Request("shipped", "approve"), Request(UNDEFINED, UNDEFINED)}

\* C8: a transition call whose request resolves to a status outside
\* {pending, verified, rejected} answers 400 and changes no transaction, order
\* or pickup row, whether or not the id exists.
C8_InvalidStatusIs400 ==
  \A id \in TxnIds, rq \in InvalidRequests :
    LET r == UpdateResult(id, rq) IN
      /\ Resolved(rq) \notin TxnStatusEnum
      /\ r.res.code = 400
      /\ ~r.res.success
      /\ r.db = Db

\* A pending transaction references an existing order, and a transition of it
\* to an unrecognized status answers 400
C8_Witness ==
  \E i \in 1..Len(txns) :
    /\ txns[i].status = "pending"
    /\ DeliveryOrderIs(i, "pending")
    /\ UpdateResult(txns[i].id, Request("shipped", UNDEFINED)).res.code = 400

----------------------------------------------------------------------------
(* C9 *)

\* C9: on an existing transaction, a request carrying only action 'approve'
\* stores verified and one carrying only action 'decline' stores rejected, and
\* each leaves the database and the answer exactly as the direct status value
\* would; approving a delivery transaction whose order_id is an order's
\* primary key leaves that order processing.
C9_ActionsMatchStatuses ==
  \A id \in TxnIds, a \in {"approve", "decline"} :
    HasTxn(id)
      => LET st     == IF a = "approve" THEN "verified" ELSE "rejected"
             r      == UpdateResult(id, Request(UNDEFINED, a))
             direct == UpdateResult(id, Request(st, UNDEFINED))
             t      == txns[TxnIndex(id)]
         IN /\ r.db.txns[TxnIndex(id)].status = st
            /\ r = direct
            /\ (a = "approve" /\ ~IsPickup(t) /\ IsNumeric(t.order_id)
                  /\ ToNumber(t.order_id) \in 1..Len(orders))
                 => /\ r.db.orders[ToNumber(t.order_id)].status = "processing"
                    /\ r.res.code = 200

\* A rejected delivery transaction whose order is canceled, as a decline
\* leaves them
C9_Witness ==
  \E i \in 1..Len(txns) :
    /\ txns[i].status = "rejected"
    /\ DeliveryOrderIs(i, "canceled")
    /\ UpdateResult(txns[i].id, Request(UNDEFINED, "decline")).db = Db

----------------------------------------------------------------------------
(* C10 *)

\* C10: a transition to verified or rejected of a transaction that references
\* no row of the store its order type selects (or whose target table does not
\* exist) still stores the new status, changes no order or pickup row, and
\* answers 200 with the updated transaction.
C10_NoMatchStillSucceeds ==
  \A id \in TxnIds, rq \in StatusRequests :
    (/\ Resolved(rq) \in {"verified", "rejected"}
     /\ HasTxn(id)
     /\ ReferencedRow(StoreOf(Db, txns[TxnIndex(id)]), txns[TxnIndex(id)].order_id) = 0)
    => LET st == Resolved(rq)
           r  == UpdateResult(id, rq)
           t  == r.db.txns[TxnIndex(id)]
       IN /\ t.status = st
          /\ r.res.code = 200
          /\ r.res.success
          /\ r.res.data = [id |-> id, order_id |-> t.order_id, status |-> st]
          /\ r.db.orders = orders
          /\ r.db.pickups = pickups

\* A rejected delivery transaction whose order reference, not null, designates
\* no row of the existing orders table
C10_Witness ==
  \E i \in 1..Len(txns) :
    /\ txns[i].status = "rejected"
    /\ ordersTable
    /\ ~IsPickup(txns[i])
    /\ txns[i].order_id # NullText
    /\ ReferencedRow(orders, txns[i].order_id) = 0

----------------------------------------------------------------------------
(* C11 *)

\* C11: a transition call that has applied the transaction's status update
\* (the transaction exists and the request resolves to an allowed status)
\* answers 200 with success and leaves the new status stored, whatever the
\* propagation statement does.
C11_PropagationIsolated ==
  \A id \in TxnIds, rq \in StatusRequests :
    (HasTxn(id) /\ Resolved(rq) \in TxnStatusEnum)
      => LET r == UpdateResult(id, rq) IN
           /\ r.res.code = 200
           /\ r.res.success
           /\ r.db.txns[TxnIndex(id)].status = Resolved(rq)

----------------------------------------------------------------------------
(* C12 *)

\* C12: when the notification sender has thrown, for either template, the
\* create request is answered 200 with success, and the transaction it
\* inserted stays stored with status pending.
C12_MailFailureStillSucceeds ==
  (sending.phase = "responded" /\ sending.sender = "rejected")
    => /\ sending.res.code = 200
       /\ sending.res.success
       /\ sending.res.mailFailed
       /\ \E i \in 1..Len(txns) :
            /\ txns[i].id = sending.res.data.id
            /\ txns[i].status = "pending"

\* A pickup create has been answered after its sender threw
C12_Witness ==
  /\ sending.phase = "responded"
  /\ sending.sender = "rejected"
  /\ sending.res.mail = "pickup"
  /\ sending.res.code = 200
  /\ Len(txns) > 0

----------------------------------------------------------------------------
(* C13 *)

\* C13: once the transaction row is inserted and the request is at its
\* notification step, the answer is eventually sent, whether or not the
\* sender ever settles.
C13_ResponseNotBlocked ==
  (sending.phase = "sending") ~> (sending.phase = "responded")

----------------------------------------------------------------------------
(* C14 *)

\* The call, among the given ones, whose write came last
LastWriter(writers, stamp(_)) ==
  CHOOSE c \in writers : \A d \in writers : stamp(d) <= stamp(c)

TxnStamp(c) == calls[c].txnAt

OrderStamp(c) == calls[c].orderAt

\* The calls that have written the status of transaction i
TxnWriters(i) == {c \in CallIds : calls[c].txnAt > 0 /\ calls[c].id = txns[i].id}

\* The calls whose propagation has written order row n
OrderWriters(n) ==
  {c \in CallIds :
     calls[c].orderAt > 0 /\ ReferencedRow(orders, calls[c].row.order_id) = n}

\* The propagation table for a delivery order
DeliveryStatusFor(st) ==
  CASE st = "verified" -> "processing" [] st = "rejected" -> "canceled"

\* C14: with transition calls on one delivery transaction running side by
\* side, every call that found the transaction answers 200; the transaction
\* holds the status of the call that wrote it last and the order holds the
\* propagated status of the call that wrote it last, and these two calls need
\* not be the same one.
C14_LastWriteWins ==
  /\ \A c \in CallIds :
       (calls[c].pc = "done" /\ calls[c].next # "") => calls[c].res.code = 200
  /\ \A i \in 1..Len(txns) :
       TxnWriters(i) # {}
         => txns[i].status = calls[LastWriter(TxnWriters(i), TxnStamp)].next
  /\ \A n \in 1..Len(orders) :
       OrderWriters(n) # {}
         => orders[n].status
              = DeliveryStatusFor(calls[LastWriter(OrderWriters(n), OrderStamp)].next)

\* Two calls on the same transaction have both answered 200; the transaction
\* is rejected while its order is processing
C14_Witness ==
  \E c, d \in CallIds :
    /\ c # d
    /\ calls[c].pc = "done" /\ calls[c].res.code = 200 /\ calls[c].next = "verified"
    /\ calls[d].pc = "done" /\ calls[d].res.code = 200 /\ calls[d].next = "rejected"
    /\ calls[c].id = calls[d].id
    /\ calls[c].orderAt > 0 /\ calls[d].orderAt > 0
    /\ txns[TxnIndex(calls[c].id)].status = "rejected"
    /\ DeliveryOrderIs(TxnIndex(calls[c].id), "processing")

----------------------------------------------------------------------------
(* C15 *)

\* C15: a list or transition request that verifyAdmin did not let through is
\* answered 401 or 403 by the middleware and changes nothing in the database;
\* requests without a valid token and requests with a customer's token are
\* among them; a create request gets the handler's answer whatever it
\* carries as credential.
C15_AdminRoutesGated ==
  /\ \A cred \in Creds :
       (cred.token # "valid" \/ cred.role = "customer") => VerifyAdmin(cred) # 0
  /\ \A cred \in Creds :
       VerifyAdmin(cred) # 0
         => /\ \A id \in TxnIds, rq \in ApiRequests :
                 LET r == PatchStatusRoute(Db, cred, id, rq) IN
                   /\ r.db = Db
                   /\ r.res.op = "verifyAdmin"
                   /\ r.res.code \in {401, 403}
            /\ LET r == GetTransactionsRoute(Db, cred) IN
                 /\ r.db = Db
                 /\ r.res.op = "verifyAdmin"
                 /\ r.res.code \in {401, 403}
                 /\ r.res.data = NoData
  /\ \A cred \in Creds, body \in {PaidBody, EmptyBody}, now \in Times :
       LET r == PostConfirmRoute(Db, cred, body, now, TRUE) IN
         /\ r.res.op = "confirmPayment"
         /\ r = ConfirmPaymentResult(Db, body, now, TRUE)

\* A pending transaction names a pending order: a customer's transition request
\* is refused with 403, an administrator's changes the database, and an
\* anonymous create is served
C15_Witness ==
  \E i \in 1..Len(txns) :
    /\ txns[i].status = "pending"
    /\ DeliveryOrderIs(i, "pending")
    /\ PatchStatusRoute(Db, Credential("valid", "customer", "absent"), txns[i].id,
                        Request("verified", UNDEFINED)).res.code = 403
    /\ PatchStatusRoute(Db, Credential("valid", "admin", "admin"), txns[i].id,
                        Request("verified", UNDEFINED)).db # Db
    /\ PostConfirmRoute(Db, Credential("none", UNDEFINED, "absent"), PaidBody, 7,
                        TRUE).res.code = 200

----------------------------------------------------------------------------
(* C16 *)

TxnIdsOf(rows) == {rows[i].id : i \in 1..Len(rows)}

\* rows2 holds the very rows of rows1, in place, up to their status
SameRowsUpToStatus(rows1, rows2) ==
  /\ Len(rows2) = Len(rows1)
  /\ \A i \in 1..Len(rows1) : [rows2[i] EXCEPT !.status = rows1[i].status] = rows1[i]

\* C16: stored transactions have distinct ids; a create that answers 200
\* leaves every stored row as it was and adds exactly one pending row under an
\* id no row had, and a create that does not answer 200 adds none; a
\* transition keeps every row in place and changes at most statuses; the list
\* changes nothing.
C16_TransactionsOnlyAdded ==
  /\ \A i, j \in 1..Len(txns) : txns[i].id = txns[j].id => i = j
  /\ \A body \in IntakeBodies, now \in Times, mailOk \in BOOLEAN :
       LET r == ConfirmPaymentResult(Db, body, now, mailOk) IN
         IF r.res.code = 200
         THEN /\ Len(r.db.txns) = Len(txns) + 1
              /\ SubSeq(r.db.txns, 1, Len(txns)) = txns
              /\ r.db.txns[Len(r.db.txns)].id \notin TxnIdsOf(txns)
              /\ r.db.txns[Len(r.db.txns)].status = "pending"
              /\ r.res.data.id = r.db.txns[Len(r.db.txns)].id
         ELSE r.db.txns = txns
  /\ \A cred \in Callers, id \in TxnIds, rq \in ApiRequests :
       SameRowsUpToStatus(txns, PatchStatusRoute(Db, cred, id, rq).db.txns)
  /\ \A cred \in Callers : GetTransactionsRoute(Db, cred).db = Db

\* A pending transaction is stored, and a second create that names the same
\* order adds a second pending row under another id
C16_Witness ==
  /\ Len(txns) = 1
  /\ txns[1].order_id = <<"1">>
  /\ LET body == [PaidBody EXCEPT !.order_id = txns[1].order_id]
         r    == ConfirmPaymentResult(Db, body, 7, TRUE)
     IN /\ r.res.code = 200
        /\ Len(r.db.txns) = 2
        /\ r.db.txns[1] = txns[1]
        /\ r.db.txns[2].order_id = txns[1].order_id
        /\ r.db.txns[2].id # txns[1].id
        /\ r.db.txns[2].status = "pending"

----------------------------------------------------------------------------
(* C17 *)

AdminCred == Credential("valid", "admin", "admin")

\* What the administrator's list call answers on the current database
Listed == GetTransactionsRoute(Db, AdminCred).res

Blank(v) == v \in {UNDEFINED, NULL, ""}

\* The name a transaction has before the display rule: its own, or, when that
\* is blank and its order_id is the primary key of an order, that order's
BackfilledName(t) ==
  IF ~Blank(t.customer_name) THEN t.customer_name
  ELSE IF IsNumeric(t.order_id) /\ ToNumber(t.order_id) \in 1..Len(orders)
  THEN orders[ToNumber(t.order_id)].customer
  ELSE NULL

\* C17: in every row the list returns, customer_name is a non-empty string;
\* when the name is blank after the backfill from the referenced order, it is
\* the row's customer_email, or without one its customer_phone, and the
\* placeholder only when name, e-mail and phone are all absent.
C17_ListedNameNeverEmpty ==
  LET listed == Listed IN
  listed.code = 200
    => /\ Len(listed.data) = Len(txns)
       /\ \A k \in 1..Len(listed.data) :
            LET row == listed.data[k]
                t   == txns[TxnIndex(row.id)]
            IN /\ ~Blank(row.customer_name)
               /\ row.customer_name =
                    IF ~Blank(BackfilledName(t)) THEN BackfilledName(t)
                    ELSE IF ~Blank(row.customer_email) THEN row.customer_email
                    ELSE IF ~Blank(row.customer_phone) THEN row.customer_phone
                    ELSE Placeholder
               /\ Blank(t.customer_email) \/ row.customer_email = t.customer_email
               /\ Blank(t.customer_phone) \/ row.customer_phone = t.customer_phone

\* The list returns a transaction stored without a name under its phone number
C17_Witness ==
  /\ Listed.code = 200
  /\ \E k \in 1..Len(Listed.data) :
       /\ Blank(txns[TxnIndex(Listed.data[k].id)].customer_name)
       /\ Listed.data[k].customer_email = NULL
       /\ Listed.data[k].customer_phone = "0801"
       /\ Listed.data[k].customer_name = "0801"

----------------------------------------------------------------------------
(* C18 *)

\* A create request that passes validation on a table that is, or is made,
\* complete
Storable(body) == ~MissingMethod(body) /\ PrepareSchema(pcTable) = "full"

\* What create yields for a body on the current database
Created(body, now) == ConfirmPaymentResult(Db, body, now, TRUE)

\* C18: every stored transaction has order_type delivery or pickup, and create
\* stores delivery, without failing, whenever the submitted order_type is absent
\* or is neither of the two.
C18_OrderTypeDefaulted ==
  /\ \A i \in 1..Len(txns) : txns[i].order_type \in OrderTypeEnum
  /\ \A body \in IntakeBodies, now \in Times :
       (Storable(body) /\ body.order_type \notin OrderTypeEnum)
         => /\ Created(body, now).res.code = 200
            /\ Len(Created(body, now).db.txns) = Len(txns) + 1
            /\ Created(body, now).db.txns[Len(txns) + 1].order_type = "delivery"

----------------------------------------------------------------------------
(* C19 *)

\* C19: every stored transaction has amount >= 0; create stores 0 when the
\* submitted amount is absent or does not parse, and never a negative amount.
C19_AmountNonNegative ==
  /\ \A i \in 1..Len(txns) : txns[i].amount >= 0
  /\ \A body \in IntakeBodies, now \in Times :
       Created(body, now).res.code = 200
         => /\ Created(body, now).db.txns[Len(txns) + 1].amount >= 0
            /\ ParseFloat(body.amount).nan
                 => Created(body, now).db.txns[Len(txns) + 1].amount = 0

----------------------------------------------------------------------------
(* C20 *)

\* The rows of a store that differ between two of its contents
ChangedRows(before, after) ==
  {i \in 1..Len(before) : after[i] # before[i]}

\* C20: a transition on a pickup transaction leaves orders as it was, one on a
\* delivery transaction leaves pickup_orders as it was, and in the store the
\* transaction's order_type selects at most one row changes, in its status only;
\* a call that finds no transaction changes neither store.
C20_PropagationFrame ==
  \A id \in TxnIds, rq \in StatusRequests :
    LET r == UpdateResult(id, rq) IN
      IF ~HasTxn(id) THEN r.db.orders = orders /\ r.db.pickups = pickups
      ELSE LET t      == txns[TxnIndex(id)]
               before == StoreOf(Db, t)
               after  == StoreOf(r.db, t)
           IN /\ IsPickup(t) => r.db.orders = orders
              /\ ~IsPickup(t) => r.db.pickups = pickups
              /\ Len(after) = Len(before)
              /\ Cardinality(ChangedRows(before, after)) <= 1
              /\ \A i \in 1..Len(before) :
                   after[i] = [before[i] EXCEPT !.status = after[i].status]

\* A transition on a delivery transaction changes one of two orders while a
\* pickup order exists
C20_Witness ==
  /\ Len(orders) = 2
  /\ Len(pickups) >= 1
  /\ \E id \in TxnIds, rq \in StatusRequests :
       /\ HasTxn(id)
       /\ ~IsPickup(txns[TxnIndex(id)])
       /\ UpdateResult(id, rq).res.code = 200
       /\ Cardinality(ChangedRows(orders, UpdateResult(id, rq).db.orders)) = 1

----------------------------------------------------------------------------
(* C21 *)

\* The propagation step of a transition of transaction t to the status that
\* request rq resolves to, on the current database
PropagationOf(t, rq) ==
  LET toSet == StatusToSet(IsPickup(t),
                           MapTransactionStatusToOrderStatus(Resolved(rq)))
  IN IF IsPickup(t)
     THEN PropagateOrderStatus(pickups, pickupTable, t.order_id, toSet,
                               PickupStatusEnum, sqlStrict)
     ELSE PropagateOrderStatus(orders, ordersTable, t.order_id, toSet,
                               OrdersStatusEnum, sqlStrict)

\* The transition of transaction id under rq reaches the propagation step
Propagates(id, rq) ==
  /\ HasTxn(id)
  /\ MapTransactionStatusToOrderStatus(Resolved(rq)) # NULL
  /\ txns[TxnIndex(id)].order_id # NullText
  /\ UpdateResult(id, rq).res.code \in {200, 500}

\* The reference is the primary key of a row of the store
KeyMatches(rows, ref) ==
  IsNumeric(ref) /\ \E i \in 1..Len(rows) : rows[i].id = ToNumber(ref)

----------------------------------------------------------------------------
(* C22 *)

\* rows2 is rows1 except, at most, for the row with this id
OnlyRowDiffers(rows1, rows2, id) ==
  /\ Len(rows2) = Len(rows1)
  /\ \A i \in 1..Len(rows1) : rows1[i].id # id => rows2[i] = rows1[i]

\* C22: a transition that answers 200 and either resolves to pending or is on a
\* transaction without an order_id changes the addressed transaction only:
\* every orders row and every pickup_orders row is as it was.
C22_NoPropagation ==
  \A id \in TxnIds, rq \in StatusRequests :
    LET r == UpdateResult(id, rq) IN
      (/\ HasTxn(id)
       /\ Resolved(rq) = "pending" \/ txns[TxnIndex(id)].order_id = NullText
       /\ r.res.code = 200)
        => /\ r.db.orders = orders
           /\ r.db.pickups = pickups
           /\ r.db.ordersTable = ordersTable
           /\ r.db.pickupTable = pickupTable
           /\ r.db.pcTable = pcTable
           /\ OnlyRowDiffers(txns, r.db.txns, id)
           /\ r.db.txns[TxnIndex(id)].status = Resolved(rq)

\* A verified transaction names an order that its verification set to
\* processing; setting the transaction back to pending answers 200, and the
\* order is still processing
C22_Witness ==
  \E i \in 1..Len(txns) :
    /\ txns[i].status = "verified"
    /\ DeliveryOrderIs(i, "processing")
    /\ LET r == UpdateResult(txns[i].id, Request("pending", UNDEFINED)) IN
         /\ r.res.code = 200
         /\ r.db.txns[i].status = "pending"
         /\ r.db.orders[ReferencedRow(orders, txns[i].order_id)].status = "processing"

----------------------------------------------------------------------------
(* C23 *)

\* What a transition call that carries notes yields on the current database
UpdateWithNotes(id, rq, notes) ==
  UpdateStatusResult(Db, id, rq.status, rq.action, notes)

----------------------------------------------------------------------------
(* C24 *)

\* The record a transaction references: the row of the store its order_type
\* selects whose primary key is the transaction's numeric order_id; 0 when the
\* order_id is not numeric or there is no such row
ReferencedRecord(t) ==
  IF KeyMatches(StoreOf(Db, t), t.order_id)
  THEN CHOOSE i \in 1..Len(StoreOf(Db, t)) : StoreOf(Db, t)[i].id = ToNumber(t.order_id)
  ELSE 0

\* C24: in every row the list returns, a customer field that is stored
\* non-empty is returned as stored; a missing one is filled only from the
\* record the transaction references, in the store its order_type selects, and
\* only for a numeric order_id: a delivery transaction gets the e-mail of its
\* order, and without a referenced record the e-mail and the phone are null and
\* the name is none but the row's own e-mail, phone or the placeholder.
C24_BackfillFromReferenced ==
  LET listed == Listed IN
  listed.code = 200
    => \A k \in 1..Len(listed.data) :
         LET row == listed.data[k]
             t   == txns[TxnIndex(row.id)]
         IN /\ ~Blank(t.customer_name) => row.customer_name = t.customer_name
            /\ ~Blank(t.customer_email) => row.customer_email = t.customer_email
            /\ ~Blank(t.customer_phone) => row.customer_phone = t.customer_phone
            /\ (Blank(t.customer_email) /\ ~IsPickup(t) /\ ReferencedRecord(t) # 0)
                 => row.customer_email = orders[ReferencedRecord(t)].customer_email
            /\ ReferencedRecord(t) = 0
                 => /\ Blank(t.customer_email) => row.customer_email = NULL
                    /\ Blank(t.customer_phone) => row.customer_phone = NULL
                    /\ Blank(t.customer_name)
                         => row.customer_name
                              \in {row.customer_email, row.customer_phone, Placeholder}

----------------------------------------------------------------------------
(* C25 *)

\* C25: a create or a transition that answers with a failure (400, 404 or 500)
\* leaves the stored payment transactions exactly as they were.
C25_FailureChangesNothing ==
  /\ \A id \in TxnIds, rq \in StatusRequests :
       UpdateResult(id, rq).res.code # 200 => UpdateResult(id, rq).db.txns = txns
  /\ \A body \in ReconcileBodies, now \in Times, mailOk \in BOOLEAN :
       ConfirmPaymentResult(Db, body, now, mailOk).res.code # 200
         => ConfirmPaymentResult(Db, body, now, mailOk).db.txns = txns

----------------------------------------------------------------------------
(* C26 *)

\* C26: a transition of a delivery transaction that answers 200 leaves the
\* order it references with status processing when it resolves to verified and
\* canceled when it resolves to rejected, whatever the order's status was
\* before, delivered and canceled included.
C26_OverwritesOrderStatus ==
  \A id \in TxnIds, rq \in FulfilRequests :
    (/\ HasTxn(id)
     /\ ~IsPickup(txns[TxnIndex(id)])
     /\ ReferencedRow(orders, txns[TxnIndex(id)].order_id) # 0
     /\ UpdateResult(id, rq).res.code = 200
     /\ Resolved(rq) \in {"verified", "rejected"})
      => UpdateResult(id, rq).db.orders[
           ReferencedRow(orders, txns[TxnIndex(id)].order_id)].status
           = IF Resolved(rq) = "verified" THEN "processing" ELSE "canceled"

\* The order a pending transaction names was marked delivered; verifying the
\* transaction answers 200 and the order is processing again
C26_Witness ==
  \E i \in 1..Len(txns) :
    /\ DeliveryOrderIs(i, "delivered")
    /\ LET r == UpdateResult(txns[i].id, Request("verified", UNDEFINED)) IN
         /\ r.res.code = 200
         /\ r.db.orders[ReferencedRow(orders, txns[i].order_id)].status = "processing"

----------------------------------------------------------------------------
(* C27 *)

\* C27: whether payment_confirmations is absent or exists without order_type,
\* the schema preparation of create leaves it with every column the INSERT
\* names, so a create with a payment_method answers 200 and stores one more,
\* pending, row.
C27_FirstCreateSucceeds ==
  /\ PrepareSchema(pcTable) = "full"
  /\ \A body \in ReconcileBodies, now \in Times, mailOk \in BOOLEAN :
       (~MissingMethod(body) /\ pcTable \in {"absent", "noOrderType"})
         => LET r == ConfirmPaymentResult(Db, body, now, mailOk) IN
              /\ r.res.code = 200
              /\ r.db.pcTable = "full"
              /\ Len(r.db.txns) = Len(txns) + 1
              /\ r.db.txns[Len(txns) + 1].status = "pending"

----------------------------------------------------------------------------
(* C28 *)

\* The requests that have obtained a connection and have not completed: the
\* create request at its notification step and the transition calls between
\* two statements
InFlight ==
  (IF sending.phase = "sending" THEN 1 ELSE 0)
    + Cardinality({c \in CallIds : calls[c].pc \in {"found", "updated", "selected"}})

\* C28: the connections borrowed from the pool are those of the requests in
\* flight, one each: every request that completed, whatever it answered, has
\* released its connection once, so with no request in flight none is borrowed.
C28_ConnectionsReleased ==
  /\ borrowed = InFlight
  /\ InFlight = 0 => borrowed = 0

\* A create that failed with a store error and a transition that found no
\* transaction have completed, list calls too, and nothing is borrowed
C28_Witness ==
  /\ sending.phase = "responded"
  /\ sending.res.code = 500
  /\ calls[1].pc = "done"
  /\ calls[1].res.code = 404
  /\ InFlight = 0
  /\ borrowed = 0

----------------------------------------------------------------------------
(* C29 *)

----------------------------------------------------------------------------
(* C30 *)

\* C30: a sendEmail that answers 200 keeps the rows of emails_sent and adds
\* one row per sanitized recipient, in order, under that recipient's address,
\* with status delivered when the send to that recipient returned and failed
\* when it threw; delivered and failed count these rows and add up to the
\* number of sanitized recipients, and failures lists the addresses of the
\* failed ones; a failed send does not keep the later recipients from theirs.
C30_OneRowPerRecipient ==
  \A body \in MailBodies, sent \in SendOutcomes, failAt \in InsertFailures :
    LET r   == SendEmailResult(emailsSent, body, sent, failAt)
        to  == SanitizeRecipients(body.recipients)
        new == SubSeq(r.rows, Len(emailsSent) + 1, Len(r.rows))
    IN r.code = 200
         => /\ SubSeq(r.rows, 1, Len(emailsSent)) = emailsSent
            /\ Len(to) > 0
            /\ Len(new) = Len(to)
            /\ \A i \in 1..Len(to) :
                 /\ new[i].recipient_email = to[i].email
                 /\ new[i].status = IF sent[i] THEN "delivered" ELSE "failed"
            /\ r.delivered = Cardinality({i \in 1..Len(to) : sent[i]})
            /\ r.failed = Cardinality({i \in 1..Len(to) : ~sent[i]})
            /\ r.delivered + r.failed = Len(to)
            /\ r.failures = SelectSeq(to, LAMBDA x : FALSE)
                 \o [j \in 1..r.failed |->
                       to[CHOOSE i \in 1..Len(to) :
                            /\ ~sent[i]
                            /\ Cardinality({h \in 1..i : ~sent[h]}) = j].email]

\* Rows are stored, and a mailing to two usable recipients whose first send
\* throws answers 200 with a failed row followed by a delivered one
C30_Witness ==
  /\ Len(emailsSent) >= 1
  /\ LET r == SendEmailResult(emailsSent, Mailing(<<Ada, TooShort, Bola>>),
                              [i \in 1..2 |-> i = 2], 0)
     IN /\ r.code = 200
        /\ Len(r.rows) = Len(emailsSent) + 2
        /\ r.rows[Len(emailsSent) + 1].status = "failed"
        /\ r.rows[Len(emailsSent) + 2].status = "delivered"
        /\ r.rows[Len(emailsSent) + 2].recipient_email = <<"b", "@", "y", "z">>
        /\ r.delivered = 1
        /\ r.failed = 1

====
